---------------------------- MODULE Spec2Model ----------------------------
(***************************************************************************)
(* Railway: the serialized program container (computing.rs), the legacy    *)
(* decoded Program and its codec (lib.rs, format.rs) and the incremental   *)
(* render session NaiveRenderer (rendering.rs).                            *)
(*                                                                         *)
(* Files are sequences of bytes; integers are big-endian u32 words read    *)
(* four bytes at a time.  Rust offsets are 0-based: byte k of a file is    *)
(* bytes[k + 1] here.                                                      *)
(***************************************************************************)
EXTENDS Integers, Sequences, FiniteSets, TLC

(***************************************************************************)
(* Results.  A ParsingResult is Ok(v) or Err(kind); a Rust panic (index    *)
(* out of bounds, unreachable!, a failed assertion) is the outcome Abort.  *)
(***************************************************************************)
Ok(val) == [ok |-> TRUE, err |-> "", v |-> val]
Err(e) == [ok |-> FALSE, err |-> e]
Abort == [ok |-> FALSE, err |-> "abort"]

NoneV == <<>>
Some(x) == <<x>>

(***************************************************************************)
(* Floats.  A Float is NaN, an infinity (n = 1 or -1) or the finite value  *)
(* n / d (d > 0, lowest terms); arithmetic on finite values is exact.      *)
(* f32 equality: NaN differs from everything, itself included.  The sign   *)
(* of zero is not kept: +0.0 and -0.0, which f32 equality cannot tell      *)
(* apart, are the one value 0.                                             *)
(***************************************************************************)
NaN == [k |-> "nan", n |-> 0, d |-> 1]
Inf(s) == [k |-> "inf", n |-> s, d |-> 1]
Fin(i) == [k |-> "fin", n |-> i, d |-> 1]
IsNaN(f) == f.k = "nan"
IsInf(f) == f.k = "inf"

Abs(i) == IF i < 0 THEN -i ELSE i
Sgn(i) == IF i > 0 THEN 1 ELSE IF i < 0 THEN -1 ELSE 0

RECURSIVE Gcd(_, _)
Gcd(a, b) == IF b = 0 THEN a ELSE Gcd(b, a % b)

\* the finite value num / den, den # 0
Rat(num, den) ==
    LET g == Gcd(Abs(num), Abs(den))
        s == IF den < 0 THEN -1 ELSE 1
    IN  [k |-> "fin", n |-> (s * num) \div g, d |-> Abs(den) \div g]

f32_eq(a, b) == ~IsNaN(a) /\ ~IsNaN(b) /\ a = b
f32_ne(a, b) == ~f32_eq(a, b)

\* a < b for operands that are not NaN
f32_lt(a, b) ==
    IF IsInf(a) THEN a.n < 0 /\ ~(IsInf(b) /\ b.n < 0)
    ELSE IF IsInf(b) THEN b.n > 0
    ELSE a.n * b.d < b.n * a.d

\* partial_cmp: "None" when an operand is NaN
partial_cmp(a, b) ==
    IF IsNaN(a) \/ IsNaN(b) THEN "None"
    ELSE IF f32_lt(a, b) THEN "Less"
    ELSE IF f32_lt(b, a) THEN "Greater"
    ELSE "Equal"

f32_neg(a) == IF IsNaN(a) THEN NaN ELSE [a EXCEPT !.n = -a.n]

f32_add(a, b) ==
    IF IsNaN(a) \/ IsNaN(b) THEN NaN
    ELSE IF IsInf(a) THEN (IF IsInf(b) /\ b.n # a.n THEN NaN ELSE a)
    ELSE IF IsInf(b) THEN b
    ELSE Rat(a.n * b.d + b.n * a.d, a.d * b.d)

f32_sub(a, b) == f32_add(a, f32_neg(b))

f32_mul(a, b) ==
    IF IsNaN(a) \/ IsNaN(b) THEN NaN
    ELSE IF IsInf(a) \/ IsInf(b)
         THEN (IF a.n = 0 \/ b.n = 0 THEN NaN ELSE Inf(Sgn(a.n) * Sgn(b.n)))
    ELSE Rat(a.n * b.n, a.d * b.d)

\* x / 0 is an infinity, 0 / 0 and inf / inf are NaN
f32_div(a, b) ==
    IF IsNaN(a) \/ IsNaN(b) THEN NaN
    ELSE IF IsInf(a) THEN (IF IsInf(b) THEN NaN ELSE Inf(a.n * (IF b.n < 0 THEN -1 ELSE 1)))
    ELSE IF IsInf(b) THEN Fin(0)
    ELSE IF b.n = 0 THEN (IF a.n = 0 THEN NaN ELSE Inf(Sgn(a.n)))
    ELSE Rat(a.n * b.d, a.d * b.n)

Couple(fx, fy) == [x |-> fx, y |-> fy]
C_ZERO == Couple(Fin(0), Fin(0))
\* derived PartialEq of Vec2<f32>
couple_ne(a, b) == f32_ne(a.x, b.x) \/ f32_ne(a.y, b.y)

(***************************************************************************)
(* Bytes and words.                                                        *)
(***************************************************************************)
QUAD == 4
MAGIC_BYTES == <<82, 87, 89, 48>>
U32_MAX_BYTES == <<255, 255, 255, 255>>

\* (n as u32).to_be_bytes(), for the word values that occur in the model
bytes(n) ==
    << (n \div 16777216) % 256, (n \div 65536) % 256, (n \div 256) % 256, n % 256 >>

\* the largest word TLC's integers hold
U32_FAR == 127 * 16777216 + 16777215

\* u32::from_be_bytes.  A word with its top bit set (0xFFFFFFFF, the "no
\* name" offset, is the one that occurs) is decoded as U32_FAR: both are
\* far above every count, slot and offset of the model, and read_nts
\* compares the raw bytes
u32_from_be_bytes(b) ==
    IF b[1] >= 128 THEN U32_FAR ELSE ((b[1] * 256 + b[2]) * 256 + b[3]) * 256 + b[4]

\* f32::to_be_bytes: the IEEE-754 binary32 bit patterns of the values used
f32_to_be_bytes(f) ==
    CASE IsNaN(f) -> <<127, 192, 0, 0>>
      [] f.n = 0 -> <<0, 0, 0, 0>>
      [] f.n = 1 -> <<63, 128, 0, 0>>
      [] f.n = 2 -> <<64, 0, 0, 0>>
      [] f.n = 3 -> <<64, 64, 0, 0>>
      [] OTHER   -> <<64, 128, 0, 0>>

\* f32::from_be_bytes on those patterns; exponent all ones with a non-zero
\* mantissa is a NaN
f32_from_be_bytes(b) ==
    CASE b = <<0, 0, 0, 0>>    -> Fin(0)
      [] b = <<63, 128, 0, 0>> -> Fin(1)
      [] b = <<64, 0, 0, 0>>   -> Fin(2)
      [] b = <<64, 64, 0, 0>>  -> Fin(3)
      [] b = <<64, 128, 0, 0>> -> Fin(4)
      [] OTHER                 -> NaN

\* computing.rs slice / format.rs slice: bytes.get(pos..pos+len)
\* (after a failure the position is never read again)
slice(b, i, len) ==
    IF i <= Len(b) /\ len <= Len(b) - i
    THEN [ok |-> TRUE, err |-> "", v |-> SubSeq(b, i + 1, i + len), i |-> i + len]
    ELSE [ok |-> FALSE, err |-> "TooShort", v |-> <<>>, i |-> i]

read_u32(b, i) ==
    LET word(s) ==
            IF s.ok
            THEN [ok |-> TRUE, err |-> "", v |-> u32_from_be_bytes(s.v), i |-> s.i]
            ELSE [ok |-> FALSE, err |-> s.err, v |-> 0, i |-> s.i]
    IN  word(slice(b, i, 4))

read_f32(b, i) ==
    LET word(s) ==
            IF s.ok
            THEN [ok |-> TRUE, err |-> "", v |-> f32_from_be_bytes(s.v), i |-> s.i]
            ELSE [ok |-> FALSE, err |-> s.err, v |-> NaN, i |-> s.i]
    IN  word(slice(b, i, 4))

(***************************************************************************)
(* serialize (computing.rs): direct-form lists -> file bytes.              *)
(*   argument  : [name : Option(bytes), value : Couple, range : <<lo, hi>>] *)
(*   instruction : [operation : name, operands : <<a, b, c>>]              *)
(*   output    : [name : Option(bytes), address]                           *)
(*   rendering step : [kind |-> "Clip", path, background] or               *)
(*                    [kind |-> "Stroke", path, stroker]                   *)
(*   path step : [type : 0..3, points : addresses]   (0 Arc: start_point,  *)
(*               center, deltas; 1 cubic; 2 quadratic; 3 line)             *)
(*   triangle  : the 9 addresses p0,p1,p2,p0_rg,p0_ba,p1_rg,p1_ba,p2_rg,   *)
(*               p2_ba;  stroker : <<pattern, width, rg, ba>>              *)
(***************************************************************************)
OPERATIONS ==
    << "Add2", "Subtract2", "Multiply2", "Divide2", "Select2", "EachX2",
       "EachY2", "Polar1", "Cartesian1", "Cartesian2", "Inside3", "Swap1",
       "Adjusted3", "Clamp3" >>

opcode(operation) == (CHOOSE k \in 1..Len(OPERATIONS) : OPERATIONS[k] = operation) - 1

RECURSIVE Flatten(_)
Flatten(ss) == IF ss = <<>> THEN <<>> ELSE Head(ss) \o Flatten(Tail(ss))

\* position of the first element equal to obj (0-based), or -1
FirstPos(vec, obj) ==
    IF \E k \in 1..Len(vec) : vec[k] = obj
    THEN (CHOOSE k \in 1..Len(vec) : vec[k] = obj /\ \A j \in 1..(k - 1) : vec[j] # obj) - 1
    ELSE -1

find_or_push(vec, obj) ==
    LET at(pos) == IF pos >= 0 THEN [vec |-> vec, index |-> pos]
                   ELSE [vec |-> Append(vec, obj), index |-> Len(vec)]
    IN  at(FirstPos(vec, obj))

\* vec.windows(n).position(|s| s == slice): windows(0) panics
find_or_push_slice(vec, sl) ==
    LET n == Len(sl)
        at(starts) ==
            IF starts # {}
            THEN [panic |-> FALSE, vec |-> vec,
                  offset |-> (CHOOSE k \in starts : \A j \in starts : k <= j) - 1, len |-> n]
            ELSE [panic |-> FALSE, vec |-> vec \o sl, offset |-> Len(vec), len |-> n]
    IN  IF n = 0 THEN [panic |-> TRUE, vec |-> vec, offset |-> 0, len |-> 0]
        ELSE at({k \in 1..(Len(vec) - n + 1) : SubSeq(vec, k, k + n - 1) = sl})

EmptyPools ==
    [ triangles |-> <<>>, triangle_indexes |-> <<>>, backgrounds |-> <<>>,
      paths |-> <<>>, arcs |-> <<>>, cubic_curves |-> <<>>,
      quadratic_curves |-> <<>>, lines |-> <<>>, strokers |-> <<>>,
      flat_rendering_steps |-> <<>>, steps |-> <<>>, panic |-> FALSE ]

\* the triangles of one background: indexes.push([find_or_push(triangles, ..)])
RECURSIVE push_triangles(_, _, _, _)
push_triangles(background, k, tris, indexes) ==
    LET pushed(r) == push_triangles(background, k + 1, r.vec, Append(indexes, <<r.index>>))
    IN  IF k > Len(background) THEN [triangles |-> tris, indexes |-> indexes]
        ELSE pushed(find_or_push(tris, background[k]))

\* the steps of one path: tmp_steps.push([type, find_or_push(pool of type, ..)])
RECURSIVE push_steps(_, _, _, _)
push_steps(path, k, pools, tmp_steps) ==
    LET type == path[k].type
        pushed(r) ==
            push_steps(path, k + 1,
                       CASE type = 0 -> [pools EXCEPT !.arcs = r.vec]
                         [] type = 1 -> [pools EXCEPT !.cubic_curves = r.vec]
                         [] type = 2 -> [pools EXCEPT !.quadratic_curves = r.vec]
                         [] OTHER    -> [pools EXCEPT !.lines = r.vec],
                       Append(tmp_steps, <<type, r.index>>))
    IN  IF k > Len(path) THEN [pools |-> pools, tmp_steps |-> tmp_steps]
        ELSE pushed(find_or_push(CASE type = 0 -> pools.arcs
                                   [] type = 1 -> pools.cubic_curves
                                   [] type = 2 -> pools.quadratic_curves
                                   [] OTHER    -> pools.lines,
                                 path[k].points))

\* the path of one rendering step, once its background or stroker is pushed
\* (p1: the pools after that push; failed: that push panicked)
serialize_path(pools, step, p1, arg_index, failed) ==
    LET with_path(ps, sp, pa) ==
            [ps.pools EXCEPT
                !.steps = sp.vec,
                !.paths = pa.vec,
                !.flat_rendering_steps =
                    Append(@, <<IF step.kind = "Clip" THEN 0 ELSE 1, pa.index, arg_index>>)]
        with_slice(ps, sp) ==
            IF failed \/ sp.panic THEN [pools EXCEPT !.panic = TRUE]
            ELSE with_path(ps, sp, find_or_push(ps.pools.paths, <<sp.offset, sp.len>>))
        with_steps(ps) == with_slice(ps, find_or_push_slice(ps.pools.steps, ps.tmp_steps))
    IN  with_steps(push_steps(step.path, 1, p1, <<>>))

\* body of `for step in rendering_steps`
serialize_step(pools, step) ==
    LET with_background(tr, ti, bg) ==
            serialize_path(pools, step,
                           [pools EXCEPT !.triangles = tr.triangles,
                                         !.triangle_indexes = ti.vec,
                                         !.backgrounds = bg.vec],
                           bg.index, ti.panic)
        with_indexes(tr, ti) ==
            with_background(tr, ti, find_or_push(pools.backgrounds, <<ti.offset, ti.len>>))
        with_triangles(tr) ==
            with_indexes(tr, find_or_push_slice(pools.triangle_indexes, tr.indexes))
        with_stroker(sk) ==
            serialize_path(pools, step, [pools EXCEPT !.strokers = sk.vec], sk.index, FALSE)
    IN  IF step.kind = "Clip"
        THEN with_triangles(push_triangles(step.background, 1, pools.triangles, <<>>))
        ELSE with_stroker(find_or_push(pools.strokers, step.stroker))

RECURSIVE serialize_steps(_, _, _)
serialize_steps(rendering_steps, k, pools) ==
    IF k > Len(rendering_steps) \/ pools.panic THEN pools
    ELSE serialize_steps(rendering_steps, k + 1, serialize_step(pools, rendering_steps[k]))

\* for_each: count, then every address of every record
for_each(array) ==
    bytes(Len(array)) \o Flatten([k \in 1..Len(array) |->
        Flatten([j \in 1..Len(array[k]) |-> bytes(array[k][j])])])

\* name offsets and the string section, arguments first, then outputs
RECURSIVE name_offsets(_, _, _, _)
name_offsets(items, k, string_section, offs) ==
    IF k > Len(items) THEN [string_section |-> string_section, offs |-> offs]
    ELSE IF items[k].name = NoneV
         THEN name_offsets(items, k + 1, string_section, Append(offs, U32_MAX_BYTES))
         ELSE name_offsets(items, k + 1, string_section \o items[k].name[1] \o <<0>>,
                           Append(offs, bytes(Len(string_section))))

serialize(arguments, instructions, outputs, rendering_steps) ==
    LET argb(a, off) ==
            off \o f32_to_be_bytes(a.value.x) \o f32_to_be_bytes(a.value.y)
                \o f32_to_be_bytes(a.range[1].x) \o f32_to_be_bytes(a.range[2].x)
                \o f32_to_be_bytes(a.range[1].y) \o f32_to_be_bytes(a.range[2].y)
        insb(ins) ==
            bytes(opcode(ins.operation)) \o bytes(ins.operands[1])
                \o bytes(ins.operands[2]) \o bytes(ins.operands[3])
        file(an, on, pools) ==
            IF pools.panic THEN Abort
            ELSE Ok( MAGIC_BYTES
                  \o bytes(Len(arguments))
                  \o Flatten([k \in 1..Len(arguments) |-> argb(arguments[k], an.offs[k])])
                  \o bytes(Len(instructions))
                  \o Flatten([k \in 1..Len(instructions) |-> insb(instructions[k])])
                  \o bytes(Len(outputs))
                  \o Flatten([k \in 1..Len(outputs) |->
                                on.offs[k] \o bytes(outputs[k].address)])
                  \o Flatten(<< for_each(pools.triangles), for_each(pools.arcs),
                                for_each(pools.cubic_curves),
                                for_each(pools.quadratic_curves), for_each(pools.lines),
                                for_each(pools.strokers), for_each(pools.steps),
                                for_each(pools.paths), for_each(pools.triangle_indexes),
                                for_each(pools.backgrounds),
                                for_each(pools.flat_rendering_steps) >>)
                  \o bytes(Len(on.string_section)) \o on.string_section )
        named(an) ==
            file(an, name_offsets(outputs, 1, an.string_section, <<>>),
                 serialize_steps(rendering_steps, 1, EmptyPools))
    IN  named(name_offsets(arguments, 1, <<>>, <<>>))

(***************************************************************************)
(* SerializedProgram (computing.rs): the file bytes plus the byte offset   *)
(* of each section's count word.                                           *)
(***************************************************************************)
SECTIONS ==
    << "arguments", "instructions", "outputs", "triangles", "arcs",
       "cubic_curves", "quadratic_curves", "lines", "strokers", "steps",
       "paths", "triangle_indexes", "backgrounds", "rendering_steps",
       "string_bytes" >>

\* bytes_per_item of each discover_section call of SerializedProgram::new
BYTES_PER_ITEM ==
    << 7 * QUAD, 4 * QUAD, 2 * QUAD, 9 * QUAD, 3 * QUAD, 4 * QUAD, 3 * QUAD,
       2 * QUAD, 4 * QUAD, 2 * QUAD, 2 * QUAD, 1 * QUAD, 2 * QUAD, 3 * QUAD, 1 >>

\* file_offset = *i; *i += read_u32(bytes, i)? * bytes_per_item
discover_section(b, i, bytes_per_item) ==
    LET counted(r) ==
            IF r.ok
            THEN [ok |-> TRUE, err |-> "", file_offset |-> i, i |-> r.i + r.v * bytes_per_item]
            ELSE [ok |-> FALSE, err |-> r.err, file_offset |-> i, i |-> r.i]
    IN  counted(read_u32(b, i))

RECURSIVE discover_sections(_, _, _, _)
discover_sections(b, i, k, offsets) ==
    LET next(d) ==
            IF d.ok THEN discover_sections(b, d.i, k + 1, Append(offsets, d.file_offset))
            ELSE [ok |-> FALSE, err |-> d.err, offsets |-> offsets, i |-> d.i]
    IN  IF k > Len(SECTIONS) THEN [ok |-> TRUE, err |-> "", offsets |-> offsets, i |-> i]
        ELSE next(discover_section(b, i, BYTES_PER_ITEM[k]))

strip_prefix_ok(b) == Len(b) >= Len(MAGIC_BYTES) /\ SubSeq(b, 1, Len(MAGIC_BYTES)) = MAGIC_BYTES

\* SerializedProgram::new
SerializedProgram_new(storage) ==
    LET discovered(d) ==
            IF ~d.ok THEN Err(d.err)
            ELSE IF d.i = Len(storage)
            THEN Ok([ storage |-> storage,
                      arguments |-> d.offsets[1], instructions |-> d.offsets[2],
                      outputs |-> d.offsets[3], triangles |-> d.offsets[4],
                      arcs |-> d.offsets[5], cubic_curves |-> d.offsets[6],
                      quadratic_curves |-> d.offsets[7], lines |-> d.offsets[8],
                      strokers |-> d.offsets[9], steps |-> d.offsets[10],
                      paths |-> d.offsets[11], triangle_indexes |-> d.offsets[12],
                      backgrounds |-> d.offsets[13], rendering_steps |-> d.offsets[14],
                      string_bytes |-> d.offsets[15] ])
            ELSE Err("ExcessBytes")
    IN  IF ~strip_prefix_ok(storage) THEN Err("NotARailwayFile")
        ELSE discovered(discover_sections(storage, Len(MAGIC_BYTES), 1, <<>>))

read_usize(p, i) == read_u32(p.storage, i)

\* n consecutive read_usize(&mut b)? calls
RECURSIVE read_n_usize(_, _, _, _)
read_n_usize(p, b, n, acc) ==
    LET next(r) == IF r.ok THEN read_n_usize(p, r.i, n - 1, Append(acc, r.v)) ELSE Err(r.err)
    IN  IF n = 0 THEN Ok(acc) ELSE next(read_usize(p, b))

RECURSIVE read_n_f32(_, _, _, _)
read_n_f32(p, b, n, acc) ==
    LET next(r) == IF r.ok THEN read_n_f32(p, r.i, n - 1, Append(acc, r.v)) ELSE Err(r.err)
    IN  IF n = 0 THEN Ok(acc) ELSE next(read_f32(p.storage, b))

\* core::str::from_utf8 on the byte values files of the model contain:
\* ASCII is valid, a lone 0x80, 0xC0 or 0xFF is not
from_utf8_ok(s) == \A k \in 1..Len(s) : s[k] < 128

\* read_nts: name offset word, then the NUL-terminated bytes in the string
\* section; the scan `while bytes[str_start + len] != 0` indexes past the end
\* of the file when no NUL follows
read_nts(p, i) ==
    LET b == p.storage
        scan(str_start, nuls) ==
            LET stop == CHOOSE k \in nuls : \A j \in nuls : k <= j
                name == SubSeq(b, str_start + 1, stop - 1)
            IN  IF nuls = {} THEN Abort
                ELSE IF from_utf8_ok(name) THEN Ok(Some(name))
                ELSE Err("InvalidName")
        from(str_start) == scan(str_start, {k \in (str_start + 1)..Len(b) : b[k] = 0})
        at(offset) ==
            IF offset >= Len(b) THEN Abort ELSE from(p.string_bytes + QUAD + offset)
        named(s) ==
            IF ~s.ok THEN Err(s.err)
            ELSE IF s.v = U32_MAX_BYTES THEN Ok(NoneV)
            ELSE at(u32_from_be_bytes(s.v))
    IN  named(slice(b, i, 4))

\* the count accessors: read_usize(&mut self.<section>.clone()).unwrap()
arguments(p) == read_usize(p, p.arguments).v
instructions(p) == read_usize(p, p.instructions).v
outputs(p) == read_usize(p, p.outputs).v
rendering_steps(p) == read_usize(p, p.rendering_steps).v
triangles(p) == read_usize(p, p.triangles).v
cubic_curves(p) == read_usize(p, p.cubic_curves).v
arcs(p) == read_usize(p, p.arcs).v
quadratic_curves(p) == read_usize(p, p.quadratic_curves).v
lines(p) == read_usize(p, p.lines).v
strokers(p) == read_usize(p, p.strokers).v
paths(p) == read_usize(p, p.paths).v
triangle_indexes(p) == read_usize(p, p.triangle_indexes).v
backgrounds(p) == read_usize(p, p.backgrounds).v

stack_size(p) == arguments(p) + instructions(p)

\* count.checked_sub(i).ok_or(InvalidIndex)
checked_sub_ok(count, i) == count - i >= 0

argument(p, i) ==
    LET b == p.arguments + QUAD + i * 7 * QUAD
        made(name, f) ==
            IF ~name.ok THEN name
            ELSE IF ~f.ok THEN f
            ELSE Ok([ name |-> name.v, value |-> Couple(f.v[1], f.v[2]),
                      range |-> <<Couple(f.v[3], f.v[5]), Couple(f.v[4], f.v[6])>> ])
    IN  IF ~checked_sub_ok(arguments(p), i) THEN Err("InvalidIndex")
        ELSE made(read_nts(p, b), read_n_f32(p, b + QUAD, 6, <<>>))

\* operation: OPERATIONS[op] panics when op is not a valid opcode
instruction(p, i) ==
    LET made(w) ==
            IF ~w.ok THEN w
            ELSE IF w.v[1] >= Len(OPERATIONS) THEN Abort
            ELSE Ok([ operation |-> OPERATIONS[w.v[1] + 1],
                      operands |-> <<w.v[2], w.v[3], w.v[4]>> ])
    IN  IF ~checked_sub_ok(instructions(p), i) THEN Err("InvalidIndex")
        ELSE made(read_n_usize(p, p.instructions + QUAD + i * 4 * QUAD, 4, <<>>))

sp_output(p, i) ==
    LET b == p.outputs + QUAD + i * 2 * QUAD
        made(name, a) ==
            IF ~name.ok THEN name
            ELSE IF ~a.ok THEN Err(a.err)
            ELSE Ok([name |-> name.v, address |-> a.v])
    IN  IF ~checked_sub_ok(outputs(p), i) THEN Err("InvalidIndex")
        ELSE made(read_nts(p, b), read_usize(p, b + QUAD))

\* unreachable!() when the tag is neither 0 nor 1
raw_rendering_step(p, i) ==
    LET made(w) ==
            IF ~w.ok THEN w
            ELSE IF w.v[1] = 0 THEN Ok([kind |-> "Clip", path |-> w.v[2], arg |-> w.v[3]])
            ELSE IF w.v[1] = 1 THEN Ok([kind |-> "Stroke", path |-> w.v[2], arg |-> w.v[3]])
            ELSE Abort
    IN  IF ~checked_sub_ok(rendering_steps(p), i) THEN Err("InvalidIndex")
        ELSE made(read_n_usize(p, p.rendering_steps + QUAD + i * 3 * QUAD, 3, <<>>))

\* the fixed-size address records of the low level API
record_at(p, count, section, i, words) ==
    IF ~checked_sub_ok(count, i) THEN Err("InvalidIndex")
    ELSE read_n_usize(p, section + QUAD + i * words * QUAD, words, <<>>)

triangle(p, i) ==
    LET made(w) ==
            IF ~w.ok THEN w
            ELSE Ok([ points |-> <<w.v[1], w.v[2], w.v[3]>>,
                      colors |-> << <<w.v[4], w.v[5]>>, <<w.v[6], w.v[7]>>,
                                    <<w.v[8], w.v[9]>> >> ])
    IN  made(record_at(p, triangles(p), p.triangles, i, 9))

cubic_curve(p, i) == record_at(p, cubic_curves(p), p.cubic_curves, i, 4)
\* start_point, center, deltas
arc(p, i) == record_at(p, arcs(p), p.arcs, i, 3)
quadratic_curve(p, i) == record_at(p, quadratic_curves(p), p.quadratic_curves, i, 3)
line(p, i) == record_at(p, lines(p), p.lines, i, 2)

stroker(p, i) ==
    LET made(w) ==
            IF ~w.ok THEN w
            ELSE Ok([pattern |-> w.v[1], width |-> w.v[2], color |-> <<w.v[3], w.v[4]>>])
    IN  made(record_at(p, strokers(p), p.strokers, i, 4))

\* byte offsets into the steps pool
raw_path(p, i) ==
    LET made(w) ==
            LET step_offset == p.steps + QUAD + w.v[1] * 2 * QUAD
            IN  IF ~w.ok THEN w
                ELSE Ok([ step_offset |-> step_offset,
                          stop_before |-> step_offset + w.v[2] * 2 * QUAD ])
    IN  made(record_at(p, paths(p), p.paths, i, 2))

triangle_index(p, i) ==
    LET made(r) == IF r.ok THEN Ok(r.v) ELSE Err(r.err)
    IN  IF ~checked_sub_ok(triangle_indexes(p), i) THEN Err("InvalidIndex")
        ELSE made(read_usize(p, p.triangle_indexes + QUAD + i * 1 * QUAD))

raw_background(p, i) ==
    LET made(w) ==
            IF ~w.ok THEN w
            ELSE Ok([triangle_index_offset |-> w.v[1], stop_before |-> w.v[1] + w.v[2]])
    IN  made(record_at(p, backgrounds(p), p.backgrounds, i, 2))

\* PathIterator::next at byte offset step_offset (caller checked
\* step_offset < stop_before): the step, or the error of the reads
path_step_at(p, step_offset) ==
    LET made(step_type, rec) ==
            IF ~rec.ok THEN rec ELSE Ok([type |-> step_type.v, points |-> rec.v])
        indexed(step_type, index) ==
            IF ~step_type.ok THEN Err(step_type.err)
            ELSE IF ~index.ok THEN Err(index.err)
            ELSE made(step_type,
                      CASE step_type.v = 0 -> arc(p, index.v)
                        [] step_type.v = 1 -> cubic_curve(p, index.v)
                        [] step_type.v = 2 -> quadratic_curve(p, index.v)
                        [] step_type.v = 3 -> line(p, index.v)
                        [] OTHER -> Err("InvalidStepType"))
    IN  indexed(read_usize(p, step_offset), read_usize(p, step_offset + QUAD))

\* the items a PathIterator yields, in order (an Err item is yielded like
\* any other; the iterator itself goes on)
RECURSIVE path_items(_, _, _)
path_items(p, step_offset, stop_before) ==
    IF step_offset < stop_before
    THEN <<path_step_at(p, step_offset)>> \o path_items(p, step_offset + 2 * QUAD, stop_before)
    ELSE <<>>

path(p, i) ==
    LET made(rp) == IF ~rp.ok THEN rp ELSE Ok(path_items(p, rp.v.step_offset, rp.v.stop_before))
    IN  made(raw_path(p, i))

(***************************************************************************)
(* The decoded Program and its codec (lib.rs, format.rs).                  *)
(*   Program : [arguments, instructions, outputs, triangles, arcs,         *)
(*              cubic_curves, quadratic_curves, lines, strokers, paths,    *)
(*              backgrounds, rendering_steps]                              *)
(*   arc : [center, angular_range, radii]; curve, line : addresses;        *)
(*   triangle : [points, colors]; stroker : [pattern, width, color];       *)
(*   path : <<step type, index>> pairs; background : triangle indexes;     *)
(*   rendering step : [kind, path, arg].                                   *)
(* Vec::with_capacity(count) is taken to succeed: a loop over a count the  *)
(* file cannot hold ends at the first read past the end.                   *)
(***************************************************************************)
STEP_TYPES == <<"Arc", "CubicCurve", "QuadraticCurve", "Line">>

\* the sections of format.rs parse, in file order
PROGRAM_SECTIONS ==
    << "arguments", "instructions", "outputs", "triangles", "arcs", "cubic_curves",
       "quadratic_curves", "lines", "strokers", "paths", "backgrounds",
       "rendering_steps" >>

Read(val, pos) == [ok |-> TRUE, err |-> "", v |-> val, i |-> pos]
Failed(e, pos) == [ok |-> FALSE, err |-> e, v |-> <<>>, i |-> pos]

try_u32(b, i) == read_u32(b, i)
try_f32(b, i) == read_f32(b, i)

RECURSIVE try_n_u32(_, _, _, _)
try_n_u32(b, i, n, values) ==
    LET next(r) == IF r.ok THEN try_n_u32(b, r.i, n - 1, Append(values, r.v))
                   ELSE Failed(r.err, r.i)
    IN  IF n = 0 THEN Read(values, i) ELSE next(try_u32(b, i))

RECURSIVE try_n_f32(_, _, _, _)
try_n_f32(b, i, n, values) ==
    LET next(r) == IF r.ok THEN try_n_f32(b, r.i, n - 1, Append(values, r.v))
                   ELSE Failed(r.err, r.i)
    IN  IF n = 0 THEN Read(values, i) ELSE next(try_f32(b, i))

\* the body of each section's loop: one item read at i
parse_item(section, b, i) ==
    LET argument_of(n_len, f) ==
            IF ~n_len.ok THEN Failed(n_len.err, n_len.i)
            ELSE IF ~f.ok THEN f
            ELSE Read([ n_len |-> n_len.v, name |-> NoneV, value |-> Couple(f.v[1], f.v[2]),
                        range |-> <<Couple(f.v[3], f.v[5]), Couple(f.v[4], f.v[6])>> ], f.i)
        operands_of(op, w) ==
            IF ~w.ok THEN w
            ELSE Read([operation |-> OPERATIONS[op + 1], operands |-> w.v], w.i)
        instruction_of(op) ==
            IF ~op.ok THEN Failed(op.err, op.i)
            ELSE IF op.v >= Len(OPERATIONS) THEN Failed("InvalidOperation", op.i)
            ELSE operands_of(op.v, try_n_u32(b, op.i, 3, <<>>))
        output_of(w) ==
            IF ~w.ok THEN w
            ELSE Read([n_len |-> w.v[1], name |-> NoneV, address |-> w.v[2]], w.i)
        triangle_of(w) ==
            IF ~w.ok THEN w
            ELSE Read([ points |-> <<w.v[1], w.v[2], w.v[3]>>,
                        colors |-> << <<w.v[4], w.v[5]>>, <<w.v[6], w.v[7]>>,
                                      <<w.v[8], w.v[9]>> >> ], w.i)
        arc_of(w) ==
            IF ~w.ok THEN w
            ELSE Read([center |-> w.v[1], angular_range |-> w.v[2], radii |-> w.v[3]], w.i)
        stroker_of(w) ==
            IF ~w.ok THEN w
            ELSE Read([pattern |-> w.v[1], width |-> w.v[2], color |-> <<w.v[3], w.v[4]>>],
                      w.i)
        steps_of(w) ==
            IF ~w.ok THEN w
            ELSE IF \E k \in 1..(Len(w.v) \div 2) : w.v[2 * k - 1] >= Len(STEP_TYPES)
            THEN Failed("InvalidStepType", w.i)
            ELSE Read([k \in 1..(Len(w.v) \div 2) |->
                          <<STEP_TYPES[w.v[2 * k - 1] + 1], w.v[2 * k]>>], w.i)
        counted(n, per_item) ==
            IF ~n.ok THEN Failed(n.err, n.i) ELSE try_n_u32(b, n.i, n.v * per_item, <<>>)
        rendering_step_of(w) ==
            IF ~w.ok THEN w
            ELSE IF w.v[1] = 0 THEN Read([kind |-> "Clip", path |-> w.v[2], arg |-> w.v[3]], w.i)
            ELSE IF w.v[1] = 1 THEN Read([kind |-> "Stroke", path |-> w.v[2], arg |-> w.v[3]], w.i)
            ELSE Failed("InvalidRenderingStep", w.i)
    IN  CASE section = "arguments" -> argument_of(try_u32(b, i), try_n_f32(b, i + 4, 6, <<>>))
          [] section = "instructions" -> instruction_of(try_u32(b, i))
          [] section = "outputs" -> output_of(try_n_u32(b, i, 2, <<>>))
          [] section = "triangles" -> triangle_of(try_n_u32(b, i, 9, <<>>))
          [] section = "arcs" -> arc_of(try_n_u32(b, i, 3, <<>>))
          [] section = "cubic_curves" -> try_n_u32(b, i, 4, <<>>)
          [] section = "quadratic_curves" -> try_n_u32(b, i, 3, <<>>)
          [] section = "lines" -> try_n_u32(b, i, 2, <<>>)
          [] section = "strokers" -> stroker_of(try_n_u32(b, i, 4, <<>>))
          [] section = "paths" -> steps_of(counted(try_u32(b, i), 2))
          [] section = "backgrounds" -> counted(try_u32(b, i), 1)
          [] section = "rendering_steps" -> rendering_step_of(try_n_u32(b, i, 3, <<>>))

\* `for _ in 0..vec.capacity()`: n more items of the section
RECURSIVE parse_items(_, _, _, _, _)
parse_items(section, b, i, n, items) ==
    LET next(r) == IF r.ok THEN parse_items(section, b, r.i, n - 1, Append(items, r.v)) ELSE r
    IN  IF n = 0 THEN Read(items, i) ELSE next(parse_item(section, b, i))

\* sections k .. of the file, each a count and its items
RECURSIVE parse_sections(_, _, _, _)
parse_sections(b, i, k, program) ==
    LET filled(r) ==
            IF ~r.ok THEN r
            ELSE parse_sections(b, r.i, k + 1,
                                [program EXCEPT ![PROGRAM_SECTIONS[k]] = r.v])
        counted(n) ==
            IF ~n.ok THEN Failed(n.err, n.i)
            ELSE filled(parse_items(PROGRAM_SECTIONS[k], b, n.i, n.v, <<>>))
    IN  IF k > Len(PROGRAM_SECTIONS) THEN Read(program, i) ELSE counted(try_u32(b, i))

\* "names of arguments" / "names of outputs": item j onwards
RECURSIVE parse_names(_, _, _, _)
parse_names(b, i, j, items) ==
    LET named(s) ==
            IF ~s.ok THEN Failed(s.err, s.i)
            ELSE IF ~from_utf8_ok(s.v) THEN Failed("InvalidName", s.i)
            ELSE parse_names(b, s.i, j + 1, [items EXCEPT ![j].name = Some(s.v)])
    IN  IF j > Len(items) THEN Read(items, i)
        ELSE IF items[j].n_len = 0 THEN parse_names(b, i, j + 1, items)
        ELSE named(slice(b, i, items[j].n_len))

Program_new == [section \in {PROGRAM_SECTIONS[k] : k \in 1..Len(PROGRAM_SECTIONS)} |-> <<>>]

\* the arg_n_len / output_n_len vectors live in the items until the end
without_n_len(items) ==
    [j \in 1..Len(items) |->
        [f \in (DOMAIN items[j]) \ {"n_len"} |-> items[j][f]]]

\* format.rs parse: offsets count from the end of the magic bytes
parse(file_bytes) ==
    LET b == SubSeq(file_bytes, Len(MAGIC_BYTES) + 1, Len(file_bytes))
        made(program, args, outs) ==
            IF ~outs.ok THEN Err(outs.err)
            ELSE Ok([program EXCEPT !.arguments = without_n_len(args.v),
                                    !.outputs = without_n_len(outs.v)])
        output_names(program, args) ==
            IF ~args.ok THEN Err(args.err)
            ELSE made(program, args, parse_names(b, args.i, 1, program.outputs))
        argument_names(sections) ==
            IF ~sections.ok THEN Err(sections.err)
            ELSE output_names(sections.v, parse_names(b, sections.i, 1, sections.v.arguments))
    IN  IF ~strip_prefix_ok(file_bytes) THEN Err("NotARailwayFile")
        ELSE argument_names(parse_sections(b, 0, 1, Program_new))

\* StepType::as_u32
as_u32(step_type) == (CHOOSE k \in 1..Len(STEP_TYPES) : STEP_TYPES[k] = step_type) - 1

\* format.rs dump: what it writes to dst
dump(src) ==
    LET name_len(name) == IF name = NoneV THEN 0 ELSE Len(name[1])
        name_bytes(name) == IF name = NoneV THEN <<>> ELSE name[1]
        words(ws) == Flatten([k \in 1..Len(ws) |-> bytes(ws[k])])
        counted(items, Item(_)) ==
            bytes(Len(items)) \o Flatten([k \in 1..Len(items) |-> Item(items[k])])
        argument_item(a) ==
            bytes(name_len(a.name)) \o f32_to_be_bytes(a.value.x) \o f32_to_be_bytes(a.value.y)
            \o f32_to_be_bytes(a.range[1].x) \o f32_to_be_bytes(a.range[2].x)
            \o f32_to_be_bytes(a.range[1].y) \o f32_to_be_bytes(a.range[2].y)
        instruction_item(ins) == bytes(opcode(ins.operation)) \o words(ins.operands)
        output_item(o) == bytes(name_len(o.name)) \o bytes(o.address)
        triangle_item(t) ==
            words(t.points) \o words(t.colors[1]) \o words(t.colors[2]) \o words(t.colors[3])
        arc_item(a) == bytes(a.center) \o bytes(a.angular_range) \o bytes(a.radii)
        stroker_item(st) == bytes(st.pattern) \o bytes(st.width) \o words(st.color)
        path_step(step) == bytes(as_u32(step[1])) \o bytes(step[2])
        path_item(pa) == counted(pa, path_step)
        background_item(bg) == counted(bg, bytes)
        rendering_step_item(rs) ==
            bytes(IF rs.kind = "Clip" THEN 0 ELSE 1) \o bytes(rs.path) \o bytes(rs.arg)
        item_name(it) == name_bytes(it.name)
    IN  Flatten(<< MAGIC_BYTES,
                   counted(src.arguments, argument_item),
                   counted(src.instructions, instruction_item),
                   counted(src.outputs, output_item),
                   counted(src.triangles, triangle_item),
                   counted(src.arcs, arc_item),
                   counted(src.cubic_curves, words),
                   counted(src.quadratic_curves, words),
                   counted(src.lines, words),
                   counted(src.strokers, stroker_item),
                   counted(src.paths, path_item),
                   counted(src.backgrounds, background_item),
                   counted(src.rendering_steps, rendering_step_item),
                   Flatten([k \in 1..Len(src.arguments) |-> item_name(src.arguments[k])]),
                   Flatten([k \in 1..Len(src.outputs) |-> item_name(src.outputs[k])]) >>)

\* format.rs size: the sums of its two folds and of the name lengths are
\* taken over the concatenated lists
size(p) ==
    LET names(items) ==
            Len(Flatten([k \in 1..Len(items) |->
                            IF items[k].name = NoneV THEN <<>> ELSE items[k].name[1]]))
        u32s == 1 + Len(p.arguments) * 7
                + 1 + Len(p.instructions) * 4
                + 1 + Len(p.outputs) * 2
                + 1 + Len(p.triangles) * 9
                + 1 + Len(p.arcs) * 3
                + 1 + Len(p.cubic_curves) * 4
                + 1 + Len(p.quadratic_curves) * 3
                + 1 + Len(p.lines) * 2
                + 1 + Len(p.strokers) * 4
                + 1 + Len(p.rendering_steps) * 4
                + 1 + Len(p.paths) + Len(Flatten(p.paths)) * 2
                + 1 + Len(p.backgrounds) + Len(Flatten(p.backgrounds))
    IN  Len(MAGIC_BYTES) + names(p.arguments) + names(p.outputs) + QUAD * u32s

inf(a, b) == a < b
inf_s(a, b) == \A k \in 1..Len(a) : inf(a[k], b)

\* Program::valid: Some(()) is TRUE
Program_valid(p) ==
    LET max == Len(p.arguments) + Len(p.instructions)
        step_max(step_type) ==
            CASE step_type = "QuadraticCurve" -> Len(p.quadratic_curves)
              [] step_type = "CubicCurve" -> Len(p.cubic_curves)
              [] step_type = "Line" -> Len(p.lines)
              [] step_type = "Arc" -> Len(p.arcs)
        step_arg_max(rs) ==
            IF rs.kind = "Clip" THEN Len(p.backgrounds) ELSE Len(p.strokers)
    IN  /\ \A i \in 1..Len(p.instructions) :
               inf_s(p.instructions[i].operands, Len(p.arguments) + i - 1)
        /\ \A i \in 1..Len(p.outputs) : inf(p.outputs[i].address, max)
        /\ \A i \in 1..Len(p.arcs) :
               inf_s(<<p.arcs[i].center, p.arcs[i].angular_range, p.arcs[i].radii>>, max)
        /\ \A i \in 1..Len(p.cubic_curves) : inf_s(p.cubic_curves[i], max)
        /\ \A i \in 1..Len(p.quadratic_curves) : inf_s(p.quadratic_curves[i], max)
        /\ \A i \in 1..Len(p.lines) : inf_s(p.lines[i], max)
        /\ \A i \in 1..Len(p.triangles) :
               /\ inf_s(p.triangles[i].points, max)
               /\ \A c \in 1..3 : inf_s(p.triangles[i].colors[c], max)
        /\ \A i \in 1..Len(p.strokers) :
               /\ inf_s(<<p.strokers[i].pattern, p.strokers[i].width>>, max)
               /\ inf_s(p.strokers[i].color, max)
        /\ \A i \in 1..Len(p.paths) : \A k \in 1..Len(p.paths[i]) :
               inf(p.paths[i][k][2], step_max(p.paths[i][k][1]))
        /\ \A i \in 1..Len(p.backgrounds) : inf_s(p.backgrounds[i], Len(p.triangles))
        /\ \A i \in 1..Len(p.rendering_steps) :
               /\ inf(p.rendering_steps[i].path, Len(p.paths))
               /\ inf(p.rendering_steps[i].arg, step_arg_max(p.rendering_steps[i]))

\* Program::parse
Program_parse(file_bytes) ==
    LET validated(r) ==
            IF ~r.ok THEN r
            ELSE IF Program_valid(r.v) THEN r ELSE Err("InvalidIndex")
    IN  validated(parse(file_bytes))

(***************************************************************************)
(* The value machine (computing.rs).                                       *)
(***************************************************************************)
\* cartesian1: (cos(a.x) * a.y, -sin(a.x) * a.y); the model evaluates it at
\* the angle 0 (cos = 1, sin = 0) and at NaN, where the result is exact
cartesian1(a) ==
    CASE IsNaN(a.x) -> Couple(NaN, NaN)
      [] a.x = Fin(0) -> Couple(f32_mul(Fin(1), a.y), f32_mul(Fin(0), a.y))

add2(a, b) == Couple(f32_add(a.x, b.x), f32_add(a.y, b.y))

\* Polar1: (atan2(-a.y, a.x), sqrt(a.x^2 + a.y^2)); evaluated on the
\* non-negative x axis (angle 0, radius a.x) and at NaN
polar1(a) ==
    CASE IsNaN(a.x) \/ IsNaN(a.y) -> Couple(NaN, NaN)
      [] a.y = Fin(0) /\ a.x.k = "fin" /\ a.x.n >= 0 -> Couple(Fin(0), a.x)

\* f32::clamp: assert!(min <= max) fails when min > max or either is NaN
clamp_panics(min, max) == IsNaN(min) \/ IsNaN(max) \/ f32_lt(max, min)

f32_clamp(x, min, max) ==
    IF IsNaN(x) THEN x
    ELSE IF f32_lt(x, min) THEN min
    ELSE IF f32_lt(max, x) THEN max
    ELSE x

\* an Inside3 whose bounds belong to the box
inside3_inclusive(a, b, c) ==
    IF /\ partial_cmp(a.x, b.x) \in {"Greater", "Equal"}
       /\ partial_cmp(a.y, b.y) \in {"Greater", "Equal"}
       /\ partial_cmp(a.x, c.x) \in {"Less", "Equal"}
       /\ partial_cmp(a.y, c.y) \in {"Less", "Equal"}
    THEN Couple(Fin(1), Fin(0))
    ELSE Couple(Fin(0), Fin(1))

\* the Inside3 arm of compute: the match on the four partial_cmp results
inside3(a, b, c) ==
    IF /\ partial_cmp(a.x, b.x) = "Greater"
       /\ partial_cmp(a.y, b.y) = "Greater"
       /\ partial_cmp(a.x, c.x) = "Less"
       /\ partial_cmp(a.y, c.y) = "Less"
    THEN Couple(Fin(1), Fin(0))
    ELSE Couple(Fin(0), Fin(1))

\* fn compute(instruction, operands) -> Couple; Abort is the clamp assertion
compute_op(instr, operands) ==
    LET a == operands[1]
        b == operands[2]
        c == operands[3]
        op == instr.operation
    IN  CASE op = "Add2" -> Ok(add2(a, b))
          [] op = "Subtract2" -> Ok(Couple(f32_sub(a.x, b.x), f32_sub(a.y, b.y)))
          [] op = "Multiply2" -> Ok(Couple(f32_mul(a.x, b.x), f32_mul(a.y, b.y)))
          [] op = "Divide2" -> Ok(Couple(f32_div(a.x, b.x), f32_div(a.y, b.y)))
          [] op = "Select2" -> Ok(Couple(a.x, b.y))
          [] op = "EachX2" -> Ok(Couple(a.x, b.x))
          [] op = "EachY2" -> Ok(Couple(a.y, b.y))
          [] op = "Polar1" -> Ok(polar1(a))
          [] op = "Cartesian1" -> Ok(cartesian1(a))
          [] op = "Cartesian2" -> Ok(add2(cartesian1(a), b))
          [] op = "Inside3" -> Ok(inside3(a, b, c))
          [] op = "Swap1" -> Ok(Couple(a.y, a.x))
          [] op = "Adjusted3" ->
                Ok(Couple(f32_add(f32_mul(a.x, c.x), f32_mul(b.x, c.y)),
                          f32_add(f32_mul(a.y, c.x), f32_mul(b.y, c.y))))
          [] op = "Clamp3" ->
                IF clamp_panics(b.x, c.x) \/ clamp_panics(b.y, c.y) THEN Abort
                ELSE Ok(Couple(f32_clamp(a.x, b.x, c.x), f32_clamp(a.y, b.y, c.y)))

\* a compute that flags every instruction slot it stores
RECURSIVE compute_from_always_dirty(_, _, _, _)
compute_from_always_dirty(p, i, stack, changes) ==
    LET store(current, result) ==
            IF ~result.ok THEN [res |-> result, stack |-> stack, changes |-> changes]
            ELSE compute_from_always_dirty(p, i + 1,
                              [stack EXCEPT ![current + 1] = result.v],
                              [changes EXCEPT ![current + 1] = TRUE])
        exec(current, ins) ==
            IF ~ins.ok THEN [res |-> ins, stack |-> stack, changes |-> changes]
            ELSE IF \E k \in 1..3 : ins.v.operands[k] >= current
            THEN [res |-> Err("InvalidOperation"), stack |-> stack, changes |-> changes]
            ELSE store(current,
                       compute_op(ins.v, [k \in 1..3 |-> stack[ins.v.operands[k] + 1]]))
    IN  IF i >= instructions(p) THEN [res |-> Ok(<<>>), stack |-> stack, changes |-> changes]
        ELSE exec(arguments(p) + i, instruction(p, i))

\* a compute that runs the instructions from the last to the first
RECURSIVE compute_from_backwards(_, _, _, _)
compute_from_backwards(p, i, stack, changes) ==
    LET store(current, result) ==
            IF ~result.ok THEN [res |-> result, stack |-> stack, changes |-> changes]
            ELSE compute_from_backwards(p, i + 1,
                              [stack EXCEPT ![current + 1] = result.v],
                              IF couple_ne(result.v, stack[current + 1])
                              THEN [changes EXCEPT ![current + 1] = TRUE] ELSE changes)
        exec(current, ins) ==
            IF ~ins.ok THEN [res |-> ins, stack |-> stack, changes |-> changes]
            ELSE IF \E k \in 1..3 : ins.v.operands[k] >= current
            THEN [res |-> Err("InvalidOperation"), stack |-> stack, changes |-> changes]
            ELSE store(current,
                       compute_op(ins.v, [k \in 1..3 |-> stack[ins.v.operands[k] + 1]]))
        back(j) == exec(arguments(p) + j, instruction(p, j))
    IN  IF i >= instructions(p) THEN [res |-> Ok(<<>>), stack |-> stack, changes |-> changes]
        ELSE back(instructions(p) - 1 - i)

\* SerializedProgram::compute(stack, Some(changes)), instruction i onwards.
\* stack and changes are 1-based here: slot s is stack[s + 1].
\* get_op: stack[..current].get(a).ok_or(InvalidOperation)
RECURSIVE compute_from(_, _, _, _)
compute_from(p, i, stack, changes) ==
    LET store(current, result) ==
            IF ~result.ok THEN [res |-> result, stack |-> stack, changes |-> changes]
            ELSE compute_from(p, i + 1,
                              [stack EXCEPT ![current + 1] = result.v],
                              IF couple_ne(result.v, stack[current + 1])
                              THEN [changes EXCEPT ![current + 1] = TRUE] ELSE changes)
        exec(current, ins) ==
            IF ~ins.ok THEN [res |-> ins, stack |-> stack, changes |-> changes]
            ELSE IF \E k \in 1..3 : ins.v.operands[k] >= current
            THEN [res |-> Err("InvalidOperation"), stack |-> stack, changes |-> changes]
            ELSE store(current,
                       compute_op(ins.v, [k \in 1..3 |-> stack[ins.v.operands[k] + 1]]))
    IN  IF i >= instructions(p) THEN [res |-> Ok(<<>>), stack |-> stack, changes |-> changes]
        ELSE exec(arguments(p) + i, instruction(p, i))

(***************************************************************************)
(* NaiveRenderer (rendering.rs): the caches and their rebuild.             *)
(* Slot a of the stack is stack[a + 1]; indexing a slice past its length   *)
(* panics.                                                                 *)
(***************************************************************************)
InRange(a, len) == a < len

\* Triangle::new: the points and the two edge vectors divided by the
\* parallelogram area
Triangle_new(pts) ==
    LET scaled(v0, v1, den) ==
            [ p |-> pts,
              v |-> << Couple(f32_mul(v0.x, den), f32_mul(v0.y, den)),
                       Couple(f32_mul(v1.x, den), f32_mul(v1.y, den)) >> ]
        edges(v0, v1) ==
            scaled(v0, v1,
                   f32_div(Fin(1), f32_sub(f32_mul(v0.x, v1.y), f32_mul(v1.x, v0.y))))
    IN  edges(Couple(f32_sub(pts[2].x, pts[1].x), f32_sub(pts[2].y, pts[1].y)),
              Couple(f32_sub(pts[3].x, pts[1].x), f32_sub(pts[3].y, pts[1].y)))

Triangle_invalid == [p |-> <<C_ZERO, C_ZERO, C_ZERO>>, v |-> <<C_ZERO, C_ZERO>>]

\* fn color(rg, ba) -> RGBA<f32>
color(rg, ba) ==
    << f32_mul(rg.x, Fin(255)), f32_mul(rg.y, Fin(255)),
       f32_mul(ba.x, Fin(255)), f32_mul(ba.y, Fin(255)) >>

RGBA_default == <<Fin(0), Fin(0), Fin(0), Fin(0)>>

\* derived PartialEq of RGBA<f32>
rgba_eq(c1, c2) == \A k \in 1..4 : f32_eq(c1[k], c2[k])

\* QuadraticBezier2::into_cubic: (P0, P0 + 2/3 (P1 - P0), P2 + 2/3 (P1 - P2), P2)
two_thirds == Rat(2, 3)
lift(p, q) == Couple(f32_add(p.x, f32_mul(two_thirds, f32_sub(q.x, p.x))),
                     f32_add(p.y, f32_mul(two_thirds, f32_sub(q.y, p.y))))
into_cubic(q) == <<q[1], lift(q[1], q[2]), lift(q[3], q[2]), q[3]>>

\* wizdraw::push_cubic_bezier_segments (external): the points pushed for a
\* cubic are a function of its four control points; the control polygon
\* stands for them
push_cubic_bezier_segments(curve) == curve

\* the Arc step: `while d_a.abs() > FRAC_PI_2 { .. d_a -= tmp_d_a .. }` never
\* ends when d_a is an infinity (d_a - pi/2 = d_a); otherwise the points
\* pushed are a function of start_point, center and deltas
arc_diverges(deltas) == IsInf(deltas.x)
arc_segments(start, center, deltas) == <<start, center, deltas>>

\* a first loop that looks only at the first address of each step
RECURSIVE path_was_updated_first_point(_, _, _)
path_was_updated_first_point(items, k, changes) ==
    IF k > Len(items) THEN "clean"
    ELSE IF ~items[k].ok THEN items[k].err
    ELSE IF ~InRange(items[k].v.points[1], Len(changes)) THEN "abort"
    ELSE IF changes[items[k].v.points[1] + 1] THEN "updated"
    ELSE path_was_updated_first_point(items, k + 1, changes)

\* first loop over the steps of path p: was_updated, with the early break.
\* "updated" | "clean" | "abort" | an error kind
RECURSIVE path_was_updated(_, _, _)
path_was_updated(items, k, changes) ==
    IF k > Len(items) THEN "clean"
    ELSE IF ~items[k].ok THEN items[k].err
    ELSE LET pts == items[k].v.points
         IN  IF \E j \in 1..Len(pts) : ~InRange(pts[j], Len(changes)) THEN "abort"
             ELSE IF \E j \in 1..Len(pts) : changes[pts[j] + 1] THEN "updated"
             ELSE path_was_updated(items, k + 1, changes)

\* second loop: flat.clear() then the points of every step; an error or a
\* panic leaves the points pushed so far in the cache
RECURSIVE flatten_steps(_, _, _, _)
flatten_steps(items, k, stack, flat) ==
    IF k > Len(items) THEN [st |-> "ok", flat |-> flat]
    ELSE IF ~items[k].ok THEN [st |-> items[k].err, flat |-> flat]
    ELSE LET ty == items[k].v.type
             pts == items[k].v.points
             s(j) == stack[pts[j] + 1]
         IN  IF \E j \in 1..Len(pts) : ~InRange(pts[j], Len(stack))
             THEN [st |-> "abort", flat |-> flat]
             ELSE IF ty = 0 /\ arc_diverges(s(3)) THEN [st |-> "diverge", flat |-> flat]
             ELSE flatten_steps(items, k + 1, stack,
                    flat \o ( CASE ty = 0 -> arc_segments(s(1), s(2), s(3))
                                [] ty = 1 -> push_cubic_bezier_segments(<<s(1), s(2), s(3), s(4)>>)
                                [] ty = 2 -> push_cubic_bezier_segments(into_cubic(<<s(1), s(2), s(3)>>))
                                [] OTHER  -> <<s(1), s(2)>> ))

\* a flattening that leaves the polyline open
flatten_path_open(items, stack) == flatten_steps(items, 1, stack, <<>>)

\* one path, flattened from the stack and closed
flatten_path(items, stack) ==
    LET closed(f) ==
            IF f.st = "ok" /\ f.flat # <<>> THEN [f EXCEPT !.flat = Append(f.flat, f.flat[1])]
            ELSE f
    IN  closed(flatten_steps(items, 1, stack, <<>>))

\* an update that clears a path's polyline before it looks at the flags
RECURSIVE update_flat_paths_clear_first(_, _, _, _, _)
update_flat_paths_clear_first(prog, p, stack, changes, flat_paths) ==
    LET flattened(f) ==
            IF f.st # "ok"
            THEN [st |-> f.st, flat_paths |-> [flat_paths EXCEPT ![p + 1] = f.flat]]
            ELSE update_flat_paths_clear_first(prog, p + 1, stack, changes,
                                               [flat_paths EXCEPT ![p + 1] = f.flat])
        checked(it, upd) ==
            IF upd = "clean"
            THEN update_flat_paths_clear_first(prog, p + 1, stack, changes,
                                               [flat_paths EXCEPT ![p + 1] = <<>>])
            ELSE IF upd # "updated" THEN [st |-> upd, flat_paths |-> flat_paths]
            ELSE flattened(flatten_path(it.v, stack))
        iterated(it) ==
            IF ~it.ok THEN [st |-> it.err, flat_paths |-> flat_paths]
            ELSE checked(it, path_was_updated(it.v, 1, changes))
    IN  IF p >= paths(prog) THEN [st |-> "ok", flat_paths |-> flat_paths]
        ELSE iterated(path(prog, p))

\* "update flattened paths": paths p .. paths() - 1
RECURSIVE update_flat_paths(_, _, _, _, _)
update_flat_paths(prog, p, stack, changes, flat_paths) ==
    LET flattened(f) ==
            IF f.st # "ok"
            THEN [st |-> f.st, flat_paths |-> [flat_paths EXCEPT ![p + 1] = f.flat]]
            ELSE update_flat_paths(prog, p + 1, stack, changes,
                                   [flat_paths EXCEPT ![p + 1] = f.flat])
        checked(it, upd) ==
            IF upd = "clean" THEN update_flat_paths(prog, p + 1, stack, changes, flat_paths)
            ELSE IF upd # "updated" THEN [st |-> upd, flat_paths |-> flat_paths]
            ELSE flattened(flatten_path(it.v, stack))
        iterated(it) ==
            IF ~it.ok THEN [st |-> it.err, flat_paths |-> flat_paths]
            ELSE checked(it, path_was_updated(it.v, 1, changes))
    IN  IF p >= paths(prog) THEN [st |-> "ok", flat_paths |-> flat_paths]
        ELSE iterated(path(prog, p))

\* iter().find(|p| stack_changes[**p]): "yes" | "no" | "abort"
RECURSIVE find_changed(_, _, _)
find_changed(addrs, k, changes) ==
    IF k > Len(addrs) THEN "no"
    ELSE IF ~InRange(addrs[k], Len(changes)) THEN "abort"
    ELSE IF changes[addrs[k] + 1] THEN "yes"
    ELSE find_changed(addrs, k + 1, changes)

\* "update triangles": triangles t .. triangles() - 1
RECURSIVE update_triangles(_, _, _, _, _, _)
update_triangles(prog, t, stack, changes, tris, tcolors) ==
    LET S(a) == stack[a + 1]
        oob(addrs) == \E j \in 1..Len(addrs) : ~InRange(addrs[j], Len(stack))
        with_colors(c) == [colors |-> c, solid |-> rgba_eq(c[1], c[2]) /\ rgba_eq(c[1], c[3])]
        recolored(tr, ntris, colors_changed) ==
            IF colors_changed # "yes"
            THEN update_triangles(prog, t + 1, stack, changes, ntris, tcolors)
            ELSE IF oob(Flatten(tr.colors))
            THEN [st |-> "abort", triangles |-> ntris, triangle_colors |-> tcolors]
            ELSE update_triangles(prog, t + 1, stack, changes, ntris,
                    [tcolors EXCEPT ![t + 1] =
                        with_colors([j \in 1..3 |->
                                        color(S(tr.colors[j][1]), S(tr.colors[j][2]))])])
        moved(tr, pos_changed, colors_changed) ==
            IF pos_changed = "abort" \/ colors_changed = "abort"
            THEN [st |-> "abort", triangles |-> tris, triangle_colors |-> tcolors]
            ELSE IF pos_changed # "yes" THEN recolored(tr, tris, colors_changed)
            ELSE IF oob(tr.points)
            THEN [st |-> "abort", triangles |-> tris, triangle_colors |-> tcolors]
            ELSE recolored(tr,
                           [tris EXCEPT ![t + 1] =
                                Triangle_new([j \in 1..3 |-> S(tr.points[j])])],
                           colors_changed)
        read(tr) ==
            IF ~tr.ok THEN [st |-> tr.err, triangles |-> tris, triangle_colors |-> tcolors]
            ELSE moved(tr.v, find_changed(tr.v.points, 1, changes),
                       find_changed(Flatten(tr.v.colors), 1, changes))
    IN  IF t >= triangles(prog) THEN [st |-> "ok", triangles |-> tris, triangle_colors |-> tcolors]
        ELSE read(triangle(prog, t))

\* one rendering step; covered: the mask the external rasterizer produced
\* for this step has a pixel with non-zero coverage.  "ok" | "abort" | error
RECURSIVE background_lookup(_, _, _, _)
background_lookup(prog, t, stop_before, ntriangles) ==
    LET looked(ti) ==
            IF ~ti.ok THEN ti.err
            ELSE IF ~InRange(ti.v, ntriangles) THEN "abort"
            ELSE background_lookup(prog, t + 1, stop_before, ntriangles)
    IN  IF t >= stop_before THEN "ok" ELSE looked(triangle_index(prog, t))

rendering_step_outcome(prog, r, stack, nflat, ntriangles, covered) ==
    LET clip(bg) ==
            IF ~bg.ok THEN bg.err
            ELSE IF covered
            THEN background_lookup(prog, bg.v.triangle_index_offset, bg.v.stop_before,
                                   ntriangles)
            ELSE "ok"
        stroke(sk) ==
            IF ~sk.ok THEN sk.err
            ELSE IF \E a \in {sk.v.pattern, sk.v.width, sk.v.color[1], sk.v.color[2]} :
                       ~InRange(a, Len(stack))
            THEN "abort"
            ELSE "ok"
        step(rs) ==
            IF ~rs.ok THEN rs.err
            ELSE IF ~InRange(rs.v.path, nflat) THEN "abort"
            ELSE IF rs.v.kind = "Clip" THEN clip(raw_background(prog, rs.v.arg))
            ELSE stroke(stroker(prog, rs.v.arg))
    IN  step(raw_rendering_step(prog, r))

RECURSIVE rendering_steps_outcome(_, _, _, _, _, _)
rendering_steps_outcome(prog, r, stack, nflat, ntriangles, cov) ==
    LET next(o) ==
            IF o # "ok" THEN o
            ELSE rendering_steps_outcome(prog, r + 1, stack, nflat, ntriangles, cov)
    IN  IF r >= rendering_steps(prog) THEN "ok"
        ELSE next(rendering_step_outcome(prog, r, stack, nflat, ntriangles, r \in cov))

\* a render that leaves the change flags as they are
render_caches_keep_flags(prog, stack, changes, fpaths, tris, tcolors) ==
    LET updated(fp, tu) ==
            [ st |-> tu.st, stack_changes |-> changes, flat_paths |-> fp.flat_paths,
              triangles |-> tu.triangles, triangle_colors |-> tu.triangle_colors ]
        flattened(fp) ==
            IF fp.st # "ok"
            THEN [ st |-> fp.st, stack_changes |-> changes, flat_paths |-> fp.flat_paths,
                   triangles |-> tris, triangle_colors |-> tcolors ]
            ELSE updated(fp, update_triangles(prog, 0, stack, changes, tris, tcolors))
    IN  flattened(update_flat_paths(prog, 0, stack, changes, fpaths))

\* NaiveRenderer::render on the session state, up to and including
\* stack_changes.fill(false)
render_caches(prog, stack, changes, fpaths, tris, tcolors) ==
    LET updated(fp, tu) ==
            IF tu.st # "ok"
            THEN [ st |-> tu.st, stack_changes |-> changes, flat_paths |-> fp.flat_paths,
                   triangles |-> tu.triangles, triangle_colors |-> tu.triangle_colors ]
            ELSE [ st |-> "ok", stack_changes |-> [k \in 1..Len(changes) |-> FALSE],
                   flat_paths |-> fp.flat_paths,
                   triangles |-> tu.triangles, triangle_colors |-> tu.triangle_colors ]
        flattened(fp) ==
            IF fp.st # "ok"
            THEN [ st |-> fp.st, stack_changes |-> changes, flat_paths |-> fp.flat_paths,
                   triangles |-> tris, triangle_colors |-> tcolors ]
            ELSE updated(fp, update_triangles(prog, 0, stack, changes, tris, tcolors))
    IN  flattened(update_flat_paths(prog, 0, stack, changes, fpaths))

\* the name scans of get_argument / set_argument / output: the position of
\* the first item whose name is Some(name), items 0 .. count - 1
\* [st |-> "found" | "none" | "abort" | error, pos]
RECURSIVE find_name(_, _, _, _, _)
find_name(table, prog, count, name, i) ==
    LET seen(it) ==
            IF ~it.ok THEN [st |-> it.err, pos |-> i]
            ELSE IF it.v.name = Some(name) THEN [st |-> "found", pos |-> i]
            ELSE find_name(table, prog, count, name, i + 1)
    IN  IF i >= count THEN [st |-> "none", pos |-> 0]
        ELSE seen(IF table = "arguments" THEN argument(prog, i) ELSE sp_output(prog, i))

(***************************************************************************)
(* The render session: one NaiveRenderer over one SerializedProgram.       *)
(***************************************************************************)
VARIABLES
    file,             \* the bytes handed to a parser: [format, bytes, edit]
    decoded,          \* Option: the program in memory (returned by Program::parse or
                      \* format parse, or given to dump / serialize)
    program,          \* SerializedProgram: storage and section offsets
    stack,            \* Box<[Couple]>
    stack_changes,    \* Box<[bool]>
    flat_paths,       \* Box<[Vec<Couple>]>
    triangles_cache,  \* NaiveRenderer.triangles: Box<[Triangle]>
    triangle_colors,  \* Box<[([RGBA<Float>; 3], bool)]>
    call,             \* the last call and what it returned
    last_set,         \* history: the value last passed to set_argument, per name
    pixel,            \* one pixel of dst, followed through the blend loops:
                      \* [dst: RGBA8, visits]
    frame,            \* the caller's buffer after a render that draws into it:
                      \* [dst: the RGBA8 pixels, renders]
    other             \* a second NaiveRenderer over the same bytes, and the calls
                      \* each of the two sessions received

vars == <<file, decoded, program, stack, stack_changes, flat_paths, triangles_cache, triangle_colors,
          call, last_set, pixel, frame, other>>

\* bounds of the session model
MaxValue == 1

NameOf(k) == <<96 + k>>
\* names callers pass: the two the programs use and one no program uses
Names == {NameOf(1), NameOf(2), NameOf(3)}
FloatInputs == {Fin(i) : i \in 0..MaxValue} \cup {NaN}
ArgValues == {Couple(fx, Fin(0)) : fx \in FloatInputs}

C(i, j) == Couple(Fin(i), Fin(j))
Arg(name, value) == [name |-> name, value |-> value, range |-> <<value, value>>]
Ins(operation, a, b, c) == [operation |-> operation, operands |-> <<a, b, c>>]
Out(name, address) == [name |-> name, address |-> address]
Step(type, points) == [type |-> type, points |-> points]

\* direct-form programs given to serialize
SessionProgram1 ==
    [ arguments |-> << Arg(Some(NameOf(1)), C(1, 0)), Arg(NoneV, C(1, 0)) >>,
      instructions |-> << Ins("Add2", 0, 1, 0), Ins("Multiply2", 2, 0, 0) >>,
      outputs |-> << Out(Some(NameOf(2)), 3), Out(Some(NameOf(1)), 0) >>,
      rendering_steps |->
        << [ kind |-> "Clip",
             path |-> << Step(3, <<0, 2>>), Step(2, <<2, 3, 1>>) >>,
             background |-> << <<0, 2, 3, 1, 1, 1, 0, 0, 0>> >> ],
           [ kind |-> "Stroke",
             path |-> << Step(0, <<1, 1, 1>>) >>,
             stroker |-> <<1, 1, 1, 0>> ] >> ]

SessionProgram2 ==
    [ arguments |-> << Arg(Some(NameOf(2)), C(0, 0)), Arg(Some(NameOf(1)), C(1, 0)),
                       Arg(Some(NameOf(1)), C(0, 1)) >>,
      instructions |-> << Ins("Swap1", 2, 0, 0) >>,
      outputs |-> << Out(NoneV, 3), Out(Some(NameOf(1)), 2) >>,
      rendering_steps |->
        << [ kind |-> "Clip",
             path |-> << Step(1, <<0, 1, 2, 3>>) >>,
             background |-> << <<0, 1, 2, 3, 3, 2, 2, 2, 3>>, <<1, 2, 3, 0, 0, 0, 0, 0, 0>> >> ],
           [ kind |-> "Clip",
             path |-> << Step(3, <<0, 2>>) >>,
             background |-> << <<1, 2, 3, 0, 0, 0, 0, 0, 0>> >> ] >> ]

SessionPrograms == {SessionProgram1, SessionProgram2}

serialize_program(sp) ==
    serialize(sp.arguments, sp.instructions, sp.outputs, sp.rendering_steps)

\* RGBA8 pixels are <<r, g, b, a>>; no blend loop has visited the pixel
NoPixel == [dst |-> <<0, 0, 0, 0>>, visits |-> 0]

\* no buffer is followed, no second session exists
NoFrame == [dst |-> <<>>, renders |-> 0]
NoOther == <<>>

\* kept: the paths whose cached polyline the call left as it was (render)
NoCall == [op |-> "new", name |-> <<>>, res |-> "Ok", out |-> NoneV, kept |-> {}]

\* NaiveRenderer::new: stack[i] = argument(i)?.value, every change flag set,
\* empty polylines, invalid triangles
RECURSIVE seed_stack(_, _, _)
seed_stack(prog, i, stk) ==
    LET seeded(a) ==
            IF ~a.ok THEN a ELSE seed_stack(prog, i + 1, [stk EXCEPT ![i + 1] = a.v.value])
    IN  IF i >= arguments(prog) THEN Ok(stk) ELSE seeded(argument(prog, i))

\* a constructor that leaves the change flags clear
NaiveRenderer_new_clean(prog) ==
    LET sized(seeded, slots, npaths, ntriangles) ==
            IF ~seeded.ok THEN seeded
            ELSE Ok([ program |-> prog,
                      stack |-> seeded.v,
                      stack_changes |-> [k \in 1..slots |-> FALSE],
                      flat_paths |-> [k \in 1..npaths |-> <<>>],
                      triangles |-> [k \in 1..ntriangles |-> Triangle_invalid],
                      triangle_colors |-> [k \in 1..ntriangles |->
                            [colors |-> <<RGBA_default, RGBA_default, RGBA_default>>,
                             solid |-> FALSE]] ])
    IN  sized(seed_stack(prog, 0, [k \in 1..stack_size(prog) |-> C_ZERO]),
              stack_size(prog), paths(prog), triangles(prog))

NaiveRenderer_new(prog) ==
    LET sized(seeded, slots, npaths, ntriangles) ==
            IF ~seeded.ok THEN seeded
            ELSE Ok([ program |-> prog,
                      stack |-> seeded.v,
                      stack_changes |-> [k \in 1..slots |-> TRUE],
                      flat_paths |-> [k \in 1..npaths |-> <<>>],
                      triangles |-> [k \in 1..ntriangles |-> Triangle_invalid],
                      triangle_colors |-> [k \in 1..ntriangles |->
                            [colors |-> <<RGBA_default, RGBA_default, RGBA_default>>,
                             solid |-> FALSE]] ])
    IN  sized(seed_stack(prog, 0, [k \in 1..stack_size(prog) |-> C_ZERO]),
              stack_size(prog), paths(prog), triangles(prog))

\* NaiveRenderer::parse(bytes) = new(SerializedProgram::new(bytes)?)
NaiveRenderer_parse(storage) ==
    LET parsed(sp) == IF ~sp.ok THEN sp ELSE NaiveRenderer_new(sp.v)
    IN  parsed(SerializedProgram_new(storage))

Init ==
    \E sp \in SessionPrograms :
        \E r \in {NaiveRenderer_parse(serialize_program(sp).v)} :
            /\ r.ok
            /\ program = r.v.program
            /\ stack = r.v.stack
            /\ stack_changes = r.v.stack_changes
            /\ flat_paths = r.v.flat_paths
            /\ triangles_cache = r.v.triangles
            /\ triangle_colors = r.v.triangle_colors
            /\ call = NoCall
            /\ pixel = NoPixel
            /\ frame = NoFrame
            /\ other = NoOther
            /\ last_set = [n \in Names |-> NoneV]
            /\ file = [format |-> "serialized", bytes |-> r.v.program.storage,
                       edit |-> "none"]
            /\ decoded = NoneV

\* a panic or a loop that never ends is the end of the session
Alive == call.res \notin {"abort", "diverge"}

\* the st of a name scan as the result of the call
scan_res(st) == IF st \in {"found", "none"} THEN "Ok" ELSE st

\* a setter that marks the slot without comparing
set_argument_always_dirty(name, value) ==
    /\ Alive
    /\ \E f \in {find_name("arguments", program, arguments(program), name, 0)} :
           /\ stack' = IF f.st = "found" THEN [stack EXCEPT ![f.pos + 1] = value] ELSE stack
           /\ stack_changes' = IF f.st = "found"
                               THEN [stack_changes EXCEPT ![f.pos + 1] = TRUE]
                               ELSE stack_changes
           /\ call' = [op |-> "set_argument", name |-> name,
                       res |-> scan_res(f.st), out |-> NoneV, kept |-> {}]
           /\ last_set' = IF f.st = "found" THEN [last_set EXCEPT ![name] = Some(value)]
                          ELSE last_set
    /\ UNCHANGED <<pixel, frame, other, file, decoded, program, flat_paths, triangles_cache, triangle_colors>>

set_argument(name, value) ==
    /\ Alive
    /\ \E f \in {find_name("arguments", program, arguments(program), name, 0)} :
       LET write == f.st = "found" /\ couple_ne(stack[f.pos + 1], value)
       IN  /\ stack' = IF write THEN [stack EXCEPT ![f.pos + 1] = value] ELSE stack
           /\ stack_changes' = IF write THEN [stack_changes EXCEPT ![f.pos + 1] = TRUE]
                               ELSE stack_changes
           /\ call' = [op |-> "set_argument", name |-> name,
                       res |-> scan_res(f.st), out |-> NoneV, kept |-> {}]
           /\ last_set' = IF f.st = "found" THEN [last_set EXCEPT ![name] = Some(value)]
                          ELSE last_set
    /\ UNCHANGED <<pixel, frame, other, file, decoded, program, flat_paths, triangles_cache, triangle_colors>>

\* a getter that answers from the file instead of the stack
get_argument_from_file(name) ==
    /\ Alive
    /\ \E f \in {find_name("arguments", program, arguments(program), name, 0)} :
           call' = [op |-> "get_argument", name |-> name,
                    res |-> scan_res(f.st),
                    out |-> IF f.st = "found" THEN Some(argument(program, f.pos).v.value)
                            ELSE NoneV,
                    kept |-> {}]
    /\ UNCHANGED <<pixel, frame, other, file, decoded, program, stack, stack_changes, flat_paths, triangles_cache,
                   triangle_colors, last_set>>

get_argument(name) ==
    /\ Alive
    /\ \E f \in {find_name("arguments", program, arguments(program), name, 0)} :
           call' = [op |-> "get_argument", name |-> name,
                    res |-> scan_res(f.st),
                    out |-> IF f.st = "found" THEN Some(stack[f.pos + 1]) ELSE NoneV,
                    kept |-> {}]
    /\ UNCHANGED <<pixel, frame, other, file, decoded, program, stack, stack_changes, flat_paths, triangles_cache,
                   triangle_colors, last_set>>

\* Some(p) => Some(self.stack[p]) with p the position in the output table
output_position(f) == f.pos

output(name) ==
    /\ Alive
    /\ \E f \in {find_name("outputs", program, outputs(program), name, 0)} :
       LET p == output_position(f)
           oob == f.st = "found" /\ ~InRange(p, Len(stack))
       IN  call' = [op |-> "output", name |-> name,
                    res |-> IF oob THEN "abort" ELSE scan_res(f.st),
                    out |-> IF f.st = "found" /\ ~oob THEN Some(stack[p + 1]) ELSE NoneV,
                    kept |-> {}]
    /\ UNCHANGED <<pixel, frame, other, file, decoded, program, stack, stack_changes, flat_paths, triangles_cache,
                   triangle_colors, last_set>>

compute ==
    /\ Alive
    /\ \E c \in {compute_from(program, 0, stack, stack_changes)} :
           /\ stack' = c.stack
           /\ stack_changes' = c.changes
           /\ call' = [op |-> "compute", name |-> <<>>,
                       res |-> IF c.res.ok THEN "Ok" ELSE c.res.err, out |-> NoneV,
                       kept |-> {}]
    /\ UNCHANGED <<pixel, frame, other, file, decoded, program, flat_paths, triangles_cache, triangle_colors, last_set>>

\* the paths the first loop of render finds clean
kept_paths(prog, changes) ==
    {p \in 0..(paths(prog) - 1) : path_was_updated(path(prog, p).v, 1, changes) = "clean"}

\* cov: the rendering steps for which the external rasterizer reports
\* coverage
render ==
    /\ Alive
    /\ \E r \in {render_caches(program, stack, stack_changes, flat_paths,
                                triangles_cache, triangle_colors)} :
           /\ stack_changes' = r.stack_changes
           /\ flat_paths' = r.flat_paths
           /\ triangles_cache' = r.triangles
           /\ triangle_colors' = r.triangle_colors
           /\ \E cov \in SUBSET (0..(rendering_steps(program) - 1)) :
                \E so \in {IF r.st # "ok" THEN r.st
                           ELSE rendering_steps_outcome(program, 0, stack, Len(flat_paths),
                                                        Len(triangles_cache), cov)} :
                    call' = [op |-> "render", name |-> <<>>,
                             res |-> IF so = "ok" THEN "Ok" ELSE so, out |-> NoneV,
                             kept |-> kept_paths(program, stack_changes)]
    /\ UNCHANGED <<pixel, frame, other, file, decoded, program, stack, last_set>>

Next ==
    \/ \E name \in Names, value \in ArgValues : set_argument(name, value)
    \/ \E name \in Names : get_argument(name)
    \/ \E name \in Names : output(name)
    \/ compute
    \/ render

Spec == Init /\ [][Next]_vars

(***************************************************************************)
(* Properties of the render session.                                       *)
(***************************************************************************)
\* what a rebuild of every cache from the stack gives
fresh_flat_path(p) == flatten_path(path(program, p).v, stack).flat
fresh_triangle(t) ==
    Triangle_new([j \in 1..3 |-> stack[triangle(program, t).v.points[j] + 1]])
fresh_triangle_colors(t) ==
    LET cols(c) == [colors |-> c, solid |-> rgba_eq(c[1], c[2]) /\ rgba_eq(c[1], c[3])]
        at(tr) == cols([j \in 1..3 |-> color(stack[tr.colors[j][1] + 1],
                                             stack[tr.colors[j][2] + 1])])
    IN  at(triangle(program, t).v)

\* the position of the first argument / output called name
argument_named(name) == find_name("arguments", program, arguments(program), name, 0)
output_named(name) == find_name("outputs", program, outputs(program), name, 0)

C2_OutputReadsAddress ==
    call.op = "output" =>
        /\ call.res = "Ok"
        /\ call.out = IF output_named(call.name).st = "found"
                      THEN Some(stack[sp_output(program,
                                                output_named(call.name).pos).v.address + 1])
                      ELSE NoneV

\* the effect of a set_argument(name, v) step on an existing name, for a
\* given meaning of "the slot already holds v"
set_argument_effect(SlotHolds(_, _)) ==
    (call'.op = "set_argument" /\ argument_named(call'.name).st = "found") =>
        LET effect(i, v) ==
                /\ IF SlotHolds(stack[i + 1], v)
                   THEN stack' = stack /\ stack_changes' = stack_changes
                   ELSE /\ stack' = [stack EXCEPT ![i + 1] = v]
                        /\ stack_changes' = [stack_changes EXCEPT ![i + 1] = TRUE]
                /\ UNCHANGED <<pixel, frame, other, program, flat_paths, triangles_cache, triangle_colors>>
        IN  effect(argument_named(call'.name).pos, last_set'[call'.name][1])

same_value(a, b) == a = b
f32_equal(a, b) == ~couple_ne(a, b)

\* C3 as stated: set_argument(name, v) on an existing name changes neither
\* the stack nor a flag when the slot holds the value v; otherwise the slot
\* becomes v, exactly its flag is set, and nothing else changes.
C3_SetArgumentFrame_SameValue == [][set_argument_effect(same_value)]_vars

\* C3, amended: set_argument(name, v) on an existing name changes neither
\* the stack nor a flag when the slot compares equal to v as f32 couples
\* (a NaN component never compares equal); otherwise the slot becomes v,
\* exactly its flag is set, and no other slot, flag or cache changes.
C3_SetArgumentFrame == [][set_argument_effect(f32_equal)]_vars

\* after a render cleared the flags, a setter wrote a new value: the slot
\* holds it, its flag is set and another slot's flag is still clear
C3_Witness ==
    /\ call.op = "set_argument"
    /\ argument_named(call.name).st = "found"
    /\ stack[argument_named(call.name).pos + 1] = last_set[call.name][1]
    /\ stack_changes[argument_named(call.name).pos + 1]
    /\ \E k \in 1..Len(stack_changes) : ~stack_changes[k]

\* C4: set_argument with a name no argument has returns an outcome other
\* than the ok of a successful set and changes neither the stack, the flags
\* nor the caches.
C4_SetMissingNotFound ==
    [][ (call'.op = "set_argument" /\ argument_named(call'.name).st = "none") =>
            /\ call'.res # "Ok"
            /\ UNCHANGED <<pixel, frame, other, program, stack, stack_changes, flat_paths, triangles_cache,
                           triangle_colors>> ]_vars

\* C5: once set_argument(name, v) was called on an existing name, the
\* argument's slot holds v and get_argument(name) returns v until the next
\* set_argument on that name, whatever compute and render calls come in
\* between; an argument slot no setter wrote holds the file's value.
C5_GetAfterSet ==
    /\ \A n \in Names :
          (argument_named(n).st = "found" /\ last_set[n] # NoneV) =>
              stack[argument_named(n).pos + 1] = last_set[n][1]
    /\ \A i \in 0..(arguments(program) - 1) :
          (\A n \in Names : ~(argument_named(n).pos = i /\ argument_named(n).st = "found"
                              /\ last_set[n] # NoneV)) =>
              stack[i + 1] = argument(program, i).v.value
    /\ (call.op = "get_argument" /\ call.res = "Ok") =>
          call.out = IF argument_named(call.name).st # "found" THEN NoneV
                     ELSE IF last_set[call.name] # NoneV THEN last_set[call.name]
                     ELSE Some(argument(program, argument_named(call.name).pos).v.value)

\* get_argument answered with a value a setter stored, after compute and
\* render ran on it (the instruction slots are computed, the flags clear)
C5_Witness ==
    /\ call.op = "get_argument"
    /\ last_set[call.name] # NoneV
    /\ call.out = last_set[call.name]
    /\ call.out # Some(argument(program, argument_named(call.name).pos).v.value)
    /\ \A k \in 1..Len(stack_changes) : ~stack_changes[k]
    /\ stack[Len(stack)] # C_ZERO


(***************************************************************************)
(* Files and parsers.  A well-formed file is what serialize or dump wrote; *)
(* at most one edit is made to it before a parser reads it.  The first     *)
(* four sections (arguments, instructions, outputs, triangles) have the    *)
(* same layout in both formats.                                            *)
(***************************************************************************)
UnnamedProgram ==
    [ arguments |-> << Arg(NoneV, C(0, 0)) >>,
      instructions |-> << Ins("Swap1", 0, 0, 0) >>,
      outputs |-> << Out(NoneV, 1) >>,
      rendering_steps |-> << >> ]

DecodedProgram1 ==
    [ arguments |-> << Arg(Some(NameOf(1)), C(1, 0)), Arg(NoneV, C(1, 0)) >>,
      instructions |-> << Ins("Add2", 0, 1, 0), Ins("Multiply2", 2, 0, 0) >>,
      outputs |-> << Out(Some(NameOf(2)), 3), Out(NoneV, 0) >>,
      triangles |-> << [points |-> <<0, 2, 3>>,
                        colors |-> << <<1, 1>>, <<1, 0>>, <<0, 0>> >>] >>,
      arcs |-> << [center |-> 1, angular_range |-> 1, radii |-> 1] >>,
      cubic_curves |-> << >>,
      quadratic_curves |-> << <<2, 3, 1>> >>,
      lines |-> << <<0, 2>> >>,
      strokers |-> << [pattern |-> 1, width |-> 1, color |-> <<1, 0>>] >>,
      paths |-> << << <<"Line", 0>>, <<"QuadraticCurve", 0>> >>, << <<"Arc", 0>> >> >>,
      backgrounds |-> << <<0>> >>,
      rendering_steps |-> << [kind |-> "Clip", path |-> 0, arg |-> 0],
                             [kind |-> "Stroke", path |-> 1, arg |-> 0] >> ]

DecodedProgram2 ==
    [ Program_new EXCEPT !.arguments = << Arg(NoneV, C(0, 0)) >>,
                         !.instructions = << Ins("Swap1", 0, 0, 0) >>,
                         !.outputs = << Out(NoneV, 1) >> ]

NoEdit == [kind |-> "none", section |-> 0, i |-> 0, k |-> 0, w |-> 0]

WellFormedFiles ==
    { [format |-> "serialized", bytes |-> serialize_program(sp).v, edit |-> NoEdit] :
        sp \in SessionPrograms \cup {UnnamedProgram} }
    \cup
    { [format |-> "program", bytes |-> dump(p), edit |-> NoEdit] :
        p \in {DecodedProgram1, DecodedProgram2} }

EditWords == {0, 2, 3, 4, 14, U32_FAR}
ExtraBytes == {<<0>>, <<7>>, <<0, 0, 0, 0>>}
MaxItems == 2

\* byte offset of the count word of section s (1 arguments .. 4 triangles)
RECURSIVE section_at(_, _)
section_at(b, s) ==
    LET after(at) == at + QUAD + read_u32(b, at).v * BYTES_PER_ITEM[s - 1]
    IN  IF s = 1 THEN Len(MAGIC_BYTES) ELSE after(section_at(b, s - 1))

section_count(b, s) == read_u32(b, section_at(b, s)).v

with_word(b, at, w) ==
    [x \in 1..Len(b) |-> IF x > at /\ x <= at + QUAD THEN bytes(w)[x - at] ELSE b[x]]

Untouched == call.op = "new" /\ file.edit.kind = "none"

remove_last_byte ==
    /\ Untouched
    /\ file' = [file EXCEPT !.bytes = SubSeq(file.bytes, 1, Len(file.bytes) - 1),
                            !.edit = [NoEdit EXCEPT !.kind = "truncated"]]
    /\ UNCHANGED <<pixel, frame, other, decoded, program, stack, stack_changes, flat_paths, triangles_cache,
                   triangle_colors, call, last_set>>

append_bytes(extra) ==
    /\ Untouched
    /\ file' = [file EXCEPT !.bytes = file.bytes \o extra,
                            !.edit = [NoEdit EXCEPT !.kind = "appended"]]
    /\ UNCHANGED <<pixel, frame, other, decoded, program, stack, stack_changes, flat_paths, triangles_cache,
                   triangle_colors, call, last_set>>

\* word k of item i of section s becomes w
set_word(s, i, k, w) ==
    /\ Untouched
    /\ i < section_count(file.bytes, s)
    /\ k < BYTES_PER_ITEM[s] \div QUAD
    /\ file' = [file EXCEPT
                   !.bytes = with_word(file.bytes,
                                       section_at(file.bytes, s) + QUAD
                                           + i * BYTES_PER_ITEM[s] + k * QUAD, w),
                   !.edit = [kind |-> "word", section |-> s, i |-> i, k |-> k, w |-> w]]
    /\ UNCHANGED <<pixel, frame, other, decoded, program, stack, stack_changes, flat_paths, triangles_cache,
                   triangle_colors, call, last_set>>

\* byte offset of the count word of the rendering steps section
rendering_steps_at(f) ==
    LET decoded_end(r) == Len(MAGIC_BYTES) + r.i - QUAD - Len(r.v.rendering_steps) * 3 * QUAD
    IN  IF f.format = "serialized" THEN SerializedProgram_new(f.bytes).v.rendering_steps
        ELSE decoded_end(parse_sections(SubSeq(f.bytes, Len(MAGIC_BYTES) + 1, Len(f.bytes)),
                                        0, 1, Program_new))

\* the tag word of rendering step i becomes w
set_rendering_step_tag(i, w) ==
    /\ Untouched
    /\ \E at \in {rendering_steps_at(file)} :
           /\ i < read_u32(file.bytes, at).v
           /\ file' = [file EXCEPT
                          !.bytes = with_word(file.bytes, at + QUAD + i * 3 * QUAD, w),
                          !.edit = [kind |-> "tag", section |-> 14, i |-> i, k |-> 0,
                                    w |-> w]]
    /\ UNCHANGED <<pixel, frame, other, decoded, program, stack, stack_changes, flat_paths, triangles_cache,
                   triangle_colors, call, last_set>>

Returned(op, r) ==
    [op |-> op, name |-> <<>>, res |-> IF r.ok THEN "Ok" ELSE r.err, out |-> NoneV,
     kept |-> {}]

\* NaiveRenderer::parse(bytes): SerializedProgram::new, then NaiveRenderer::new
NaiveRenderer_parse_file ==
    /\ call.op = "new"
    /\ file.format = "serialized"
    /\ \E r \in {NaiveRenderer_parse(file.bytes)} :
           /\ call' = Returned("NaiveRenderer::parse", r)
           /\ program' = IF r.ok THEN r.v.program ELSE program
           /\ stack' = IF r.ok THEN r.v.stack ELSE stack
           /\ stack_changes' = IF r.ok THEN r.v.stack_changes ELSE stack_changes
           /\ flat_paths' = IF r.ok THEN r.v.flat_paths ELSE flat_paths
           /\ triangles_cache' = IF r.ok THEN r.v.triangles ELSE triangles_cache
           /\ triangle_colors' = IF r.ok THEN r.v.triangle_colors ELSE triangle_colors
    /\ UNCHANGED <<pixel, frame, other, file, decoded, last_set>>

\* format.rs parse(bytes)
parse_file ==
    /\ call.op = "new"
    /\ file.format = "program"
    /\ \E r \in {parse(file.bytes)} :
           /\ call' = Returned("parse", r)
           /\ decoded' = IF r.ok THEN Some(r.v) ELSE NoneV
    /\ UNCHANGED <<pixel, frame, other, file, program, stack, stack_changes, flat_paths, triangles_cache,
                   triangle_colors, last_set>>

\* Program::parse(bytes)
Program_parse_file ==
    /\ call.op = "new"
    /\ file.format = "program"
    /\ \E r \in {Program_parse(file.bytes)} :
           /\ call' = Returned("Program::parse", r)
           /\ decoded' = IF r.ok THEN Some(r.v) ELSE NoneV
    /\ UNCHANGED <<pixel, frame, other, file, program, stack, stack_changes, flat_paths, triangles_cache,
                   triangle_colors, last_set>>

Opened == program # <<>>

\* SerializedProgram::instruction(i) on the opened program
read_instruction(i) ==
    /\ Opened
    /\ Alive
    /\ call' = [Returned("instruction", instruction(program, i)) EXCEPT !.name = <<i>>]
    /\ UNCHANGED <<pixel, frame, other, file, decoded, program, stack, stack_changes, flat_paths,
                   triangles_cache, triangle_colors, last_set>>

\* SerializedProgram::raw_rendering_step(i) on the opened program
read_rendering_step(i) ==
    /\ Opened
    /\ Alive
    /\ call' = [Returned("raw_rendering_step", raw_rendering_step(program, i))
                   EXCEPT !.name = <<i>>]
    /\ UNCHANGED <<pixel, frame, other, file, decoded, program, stack, stack_changes, flat_paths,
                   triangles_cache, triangle_colors, last_set>>

ParseInit ==
    /\ file \in WellFormedFiles
    /\ decoded = NoneV
    /\ program = <<>>
    /\ stack = <<>>
    /\ stack_changes = <<>>
    /\ flat_paths = <<>>
    /\ triangles_cache = <<>>
    /\ triangle_colors = <<>>
    /\ call = NoCall
    /\ pixel = NoPixel
    /\ frame = NoFrame
    /\ other = NoOther
    /\ last_set = [n \in Names |-> NoneV]

ParseNext ==
    \/ remove_last_byte
    \/ \E extra \in ExtraBytes : append_bytes(extra)
    \/ \E s \in 2..4, i \in 0..(MaxItems - 1), k \in 0..8, w \in EditWords :
           set_word(s, i, k, w)
    \/ \E i \in 0..(MaxItems - 1), w \in EditWords : set_rendering_step_tag(i, w)
    \/ NaiveRenderer_parse_file
    \/ parse_file
    \/ Program_parse_file
    \/ \E i \in 0..MaxItems : read_instruction(i)
    \/ \E i \in 0..MaxItems : read_rendering_step(i)
    \/ (Opened /\ compute)
    \/ (Opened /\ render)

ParseSpec == ParseInit /\ [][ParseNext]_vars


(***************************************************************************)
(* Properties of the parsers.                                              *)
(***************************************************************************)
ParseCalls == {"NaiveRenderer::parse", "Program::parse", "parse"}

\* word k (from 1) of item i of a section of fixed-size records
item_word(p, section, words, i, k) ==
    read_usize(p, section + QUAD + (i * words + k - 1) * QUAD).v

\* the section 3 invariants read off the words of a SerializedProgram
sound_serialized(p) ==
    LET below(section, count, words, first, max) ==
            \A i \in 0..(count - 1) : \A k \in first..words :
                item_word(p, section, words, i, k) < max
        primitives(step_type) ==
            CASE step_type = 0 -> arcs(p)
              [] step_type = 1 -> cubic_curves(p)
              [] step_type = 2 -> quadratic_curves(p)
              [] step_type = 3 -> lines(p)
              [] OTHER -> 0
        step_arg_max(tag) == IF tag = 0 THEN backgrounds(p) ELSE strokers(p)
    IN  /\ below(p.outputs, outputs(p), 2, 2, stack_size(p))
        /\ below(p.triangles, triangles(p), 9, 1, stack_size(p))
        /\ below(p.arcs, arcs(p), 3, 1, stack_size(p))
        /\ below(p.cubic_curves, cubic_curves(p), 4, 1, stack_size(p))
        /\ below(p.quadratic_curves, quadratic_curves(p), 3, 1, stack_size(p))
        /\ below(p.lines, lines(p), 2, 1, stack_size(p))
        /\ below(p.strokers, strokers(p), 4, 1, stack_size(p))
        /\ \A i \in 0..(read_usize(p, p.steps).v - 1) :
               item_word(p, p.steps, 2, i, 2) < primitives(item_word(p, p.steps, 2, i, 1))
        /\ below(p.triangle_indexes, triangle_indexes(p), 1, 1, triangles(p))
        /\ \A i \in 0..(rendering_steps(p) - 1) :
               /\ item_word(p, p.rendering_steps, 3, i, 2) < paths(p)
               /\ item_word(p, p.rendering_steps, 3, i, 3)
                      < step_arg_max(item_word(p, p.rendering_steps, 3, i, 1))

\* C6: whenever a parser accepts a byte string, the program it returns
\* satisfies every structural invariant (addresses below arguments +
\* instructions, step, triangle, path, background and stroker indexes within
\* their lists).
C6_ParsedProgramSound ==
    /\ (call.op = "NaiveRenderer::parse" /\ call.res = "Ok") => sound_serialized(program)
    /\ (call.op = "Program::parse" /\ call.res = "Ok") => Program_valid(decoded[1])

\* the one edit put an operand of instruction i at or above arguments + i
operand_out_of_range ==
    /\ file.edit.kind = "word"
    /\ file.edit.section = 2
    /\ file.edit.k >= 1
    /\ file.edit.w >= section_count(file.bytes, 1) + file.edit.i

\* C7: a file with an instruction operand >= arguments + i is refused by the
\* parser with InvalidIndex, so compute never meets it and reports another
\* error kind.
C7_BadOperandRefusedAtParse ==
    operand_out_of_range =>
        /\ call.op \in {"NaiveRenderer::parse", "Program::parse"} => call.res = "InvalidIndex"
        /\ call.op = "compute" => call.res \in {"Ok", "InvalidIndex"}

\* C8: a well-formed file without its last byte is refused with TooShort.
C8_TruncatedIsTooShort ==
    (file.edit.kind = "truncated" /\ call.op \in ParseCalls) => call.res = "TooShort"

\* C9: a well-formed file followed by extra bytes is refused with
\* ExcessBytes.
C9_TrailingBytesRefused ==
    (file.edit.kind = "appended" /\ call.op \in ParseCalls) => call.res = "ExcessBytes"

\* the one edit put an opcode >= 14 in instruction i
opcode_out_of_range ==
    /\ file.edit.kind = "word"
    /\ file.edit.section = 2
    /\ file.edit.k = 0
    /\ file.edit.w >= Len(OPERATIONS)

\* C10: every operation that reads an instruction whose opcode is >= 14
\* (the decoding parser, the instruction accessor, compute) returns
\* InvalidOperation and does not abort.
C10_BadOpcodeReported ==
    opcode_out_of_range =>
        /\ call.op \in {"Program::parse", "parse", "compute"} => call.res = "InvalidOperation"
        /\ (call.op = "instruction" /\ call.name = <<file.edit.i>>)
               => call.res = "InvalidOperation"


\* the one edit put a tag other than 0 (Clip) and 1 (Stroke) in rendering
\* step i
tag_out_of_range ==
    /\ file.edit.kind = "tag"
    /\ file.edit.w \notin {0, 1}

\* C11: every operation that reads a rendering step whose tag is neither 0
\* nor 1 (the decoding parser, the rendering-step accessor, render) returns
\* InvalidRenderingStep and does not abort.
C11_BadTagReported ==
    tag_out_of_range =>
        /\ call.op \in {"Program::parse", "parse", "render"}
               => call.res = "InvalidRenderingStep"
        /\ (call.op = "raw_rendering_step" /\ call.name = <<file.edit.i>>)
               => call.res = "InvalidRenderingStep"


(***************************************************************************)
(* The codec of the decoded Program: a Program in memory is measured,      *)
(* dumped and parsed back.                                                 *)
(***************************************************************************)
NameOptions == {NoneV, Some(<<>>), Some(NameOf(1)), Some(NameOf(1) \o NameOf(2))}

CodecPrograms ==
    { [DecodedProgram1 EXCEPT
          !.arguments = << Arg(an, C(1, 0)), Arg(NoneV, C(1, 0)) >>,
          !.outputs = << Out(on, 3), Out(NoneV, 0) >>,
          !.rendering_steps = SubSeq(@, 1, n)] :
        an \in NameOptions, on \in NameOptions, n \in 0..2 }
    \cup {Program_new, DecodedProgram2}

Measured(op, n) == [op |-> op, name |-> <<>>, res |-> "Ok", out |-> Some(n), kept |-> {}]

\* Program::file_size()
Program_file_size ==
    /\ decoded # NoneV
    /\ call' = Measured("file_size", size(decoded[1]))
    /\ UNCHANGED <<pixel, frame, other, file, decoded, program, stack, stack_changes, flat_paths,
                   triangles_cache, triangle_colors, last_set>>

\* Program::dump(&mut buffer) into an empty buffer: Ok(bytes written)
Program_dump ==
    /\ decoded # NoneV
    /\ file.bytes = <<>>
    /\ \E written \in {dump(decoded[1])} :
           /\ file' = [file EXCEPT !.bytes = written]
           /\ call' = Measured("dump", Len(written))
    /\ UNCHANGED <<pixel, frame, other, decoded, program, stack, stack_changes, flat_paths,
                   triangles_cache, triangle_colors, last_set>>

\* Program::parse(&buffer): out is the Program returned
Program_parse_buffer ==
    /\ file.bytes # <<>>
    /\ \E r \in {Program_parse(file.bytes)} :
           call' = [Returned("Program::parse", r) EXCEPT
                       !.out = IF r.ok THEN Some(r.v) ELSE NoneV]
    /\ UNCHANGED <<pixel, frame, other, file, decoded, program, stack, stack_changes, flat_paths,
                   triangles_cache, triangle_colors, last_set>>

CodecInit ==
    /\ file = [format |-> "program", bytes |-> <<>>, edit |-> NoEdit]
    /\ decoded \in {Some(p) : p \in CodecPrograms}
    /\ program = <<>>
    /\ stack = <<>>
    /\ stack_changes = <<>>
    /\ flat_paths = <<>>
    /\ triangles_cache = <<>>
    /\ triangle_colors = <<>>
    /\ call = NoCall
    /\ pixel = NoPixel
    /\ frame = NoFrame
    /\ other = NoOther
    /\ last_set = [n \in Names |-> NoneV]

CodecNext ==
    \/ Program_file_size
    \/ Program_dump
    \/ Program_parse_buffer

CodecSpec == CodecInit /\ [][CodecNext]_vars

\* C12: dumping a valid Program and parsing the bytes returns a Program
\* equal to the original, names included.
C12_DumpParseRoundTrip ==
    (call.op = "Program::parse" /\ Program_valid(decoded[1]))
        => (call.res = "Ok" /\ call.out = decoded)


\* C13: the number of bytes dump writes for a Program equals its
\* file_size.
C13_DumpWritesFileSize ==
    call.op = "dump" => call.out = Some(size(decoded[1]))


(***************************************************************************)
(* The serializer: direct-form lists are serialized and the bytes opened.  *)
(***************************************************************************)
MaxSteps == 3

LinePath == << Step(3, <<0, 1>>) >>
TwoLinesPath == << Step(3, <<0, 1>>), Step(3, <<0, 1>>) >>
MixedPath == << Step(3, <<0, 1>>), Step(2, <<0, 1, 2>>) >>
OneTriangle == <<0, 1, 2, 3, 3, 3, 3, 3, 3>>

StepChoices ==
    { [kind |-> "Stroke", path |-> pa, stroker |-> <<3, 3, 3, 3>>] :
        pa \in {LinePath, TwoLinesPath, MixedPath, <<>>} }
    \cup
    { [kind |-> "Clip", path |-> LinePath, background |-> bg] :
        bg \in {<<OneTriangle>>, <<OneTriangle, OneTriangle>>, <<>>} }

RECURSIVE StepLists(_)
StepLists(n) ==
    IF n = 0 THEN {<<>>}
    ELSE StepLists(n - 1)
         \cup {Append(l, st) : l \in {x \in StepLists(n - 1) : Len(x) = n - 1},
                               st \in StepChoices}

SerializeInputs ==
    { [ arguments |-> << Arg(NoneV, C(0, 0)), Arg(NoneV, C(1, 0)), Arg(NoneV, C(0, 1)),
                         Arg(NoneV, C(1, 1)) >>,
        instructions |-> << >>,
        outputs |-> << >>,
        rendering_steps |-> l ] : l \in StepLists(MaxSteps) }

\* serialize(arguments, instructions, outputs, rendering_steps) -> Vec<u8>
serialize_lists ==
    /\ call.op = "new"
    /\ decoded # NoneV
    /\ file.bytes = <<>>
    /\ \E r \in {serialize_program(decoded[1])} :
           /\ call' = Returned("serialize", r)
           /\ file' = IF r.ok THEN [file EXCEPT !.bytes = r.v] ELSE file
    /\ UNCHANGED <<pixel, frame, other, decoded, program, stack, stack_changes, flat_paths, triangles_cache,
                   triangle_colors, last_set>>

\* SerializedProgram::new on the bytes serialize returned
SerializedProgram_new_file ==
    /\ call.op = "serialize"
    /\ call.res = "Ok"
    /\ \E r \in {SerializedProgram_new(file.bytes)} :
           /\ call' = Returned("SerializedProgram::new", r)
           /\ program' = IF r.ok THEN r.v ELSE program
    /\ UNCHANGED <<pixel, frame, other, file, decoded, stack, stack_changes, flat_paths, triangles_cache,
                   triangle_colors, last_set>>

SerializeInit ==
    /\ file = [format |-> "serialized", bytes |-> <<>>, edit |-> NoEdit]
    /\ decoded \in {Some(l) : l \in SerializeInputs}
    /\ program = <<>>
    /\ stack = <<>>
    /\ stack_changes = <<>>
    /\ flat_paths = <<>>
    /\ triangles_cache = <<>>
    /\ triangle_colors = <<>>
    /\ call = NoCall
    /\ pixel = NoPixel
    /\ frame = NoFrame
    /\ other = NoOther
    /\ last_set = [n \in Names |-> NoneV]

SerializeNext ==
    \/ serialize_lists
    \/ SerializedProgram_new_file

SerializeSpec == SerializeInit /\ [][SerializeNext]_vars

\* C14: the file serialize wrote holds no two equal records in its triangle,
\* arc, cubic curve, quadratic curve, line, stroker, path and background
\* sections, and rendering steps that were given equal paths refer to the
\* same path index.
C14_SerializerDeduplicates ==
    LET distinct(count, Record(_, _)) ==
            \A i \in 0..(count - 1), j \in 0..(count - 1) :
                i < j => Record(program, i) # Record(program, j)
        given == decoded[1].rendering_steps
    IN  (call.op = "SerializedProgram::new" /\ call.res = "Ok") =>
            /\ distinct(triangles(program), triangle)
            /\ distinct(arcs(program), arc)
            /\ distinct(cubic_curves(program), cubic_curve)
            /\ distinct(quadratic_curves(program), quadratic_curve)
            /\ distinct(lines(program), line)
            /\ distinct(strokers(program), stroker)
            /\ distinct(paths(program), raw_path)
            /\ distinct(backgrounds(program), raw_background)
            /\ \A r1 \in 1..Len(given), r2 \in 1..Len(given) :
                   given[r1].path = given[r2].path
                       => raw_rendering_step(program, r1 - 1).v.path
                              = raw_rendering_step(program, r2 - 1).v.path


(***************************************************************************)
(* The value machine on its own: a program of three arguments is opened,   *)
(* the argument slots hold what the caller set, and compute runs.          *)
(***************************************************************************)
ComputeValues ==
    { C(0, 0), C(1, 1), C(2, 2), C(0, 1), C(1, 0), C(2, 1), C(1, 2),
      Couple(NaN, Fin(1)), Couple(Fin(1), NaN) }

ComputeInstructions ==
    { << Ins("Inside3", 0, 1, 2), Ins("Select2", 3, 0, 0) >>,
      << Ins("Clamp3", 0, 1, 2), Ins("Add2", 3, 3, 0) >>,
      << Ins("Divide2", 0, 1, 0), Ins("Multiply2", 3, 2, 0) >>,
      << Ins("Subtract2", 0, 1, 0), Ins("Adjusted3", 3, 1, 2), Ins("Swap1", 4, 0, 0) >>,
      << Ins("EachX2", 0, 1, 0), Ins("EachY2", 3, 2, 0) >> }

ComputePrograms ==
    { [ arguments |-> << Arg(NoneV, C(0, 0)), Arg(NoneV, C(0, 0)), Arg(NoneV, C(0, 0)) >>,
        instructions |-> l,
        outputs |-> << >>,
        rendering_steps |-> << >> ] : l \in ComputeInstructions }

ComputeInit ==
    \E sp \in ComputePrograms :
        \E r \in {NaiveRenderer_parse(serialize_program(sp).v)} :
            /\ r.ok
            /\ program = r.v.program
            /\ \E a \in ComputeValues, b \in ComputeValues, c \in ComputeValues :
                   stack = [r.v.stack EXCEPT ![1] = a, ![2] = b, ![3] = c]
            /\ stack_changes = r.v.stack_changes
            /\ flat_paths = r.v.flat_paths
            /\ triangles_cache = r.v.triangles
            /\ triangle_colors = r.v.triangle_colors
            /\ call = NoCall
            /\ pixel = NoPixel
            /\ frame = NoFrame
            /\ other = NoOther
            /\ last_set = [n \in Names |-> NoneV]
            /\ file = [format |-> "serialized", bytes |-> r.v.program.storage,
                       edit |-> NoEdit]
            /\ decoded = NoneV

ComputeNext ==
    \/ compute

ComputeSpec == ComputeInit /\ [][ComputeNext]_vars

first_instruction == instruction(program, 0).v
operand_value(ins, k) == stack[ins.operands[k] + 1]
computed(operation) ==
    /\ call.op = "compute"
    /\ call.res = "Ok"
    /\ instructions(program) > 0
    /\ first_instruction.operation = operation

\* lo < v < hi, which no NaN satisfies
strictly_between(lo, v, hi) ==
    /\ ~IsNaN(lo) /\ ~IsNaN(v) /\ ~IsNaN(hi)
    /\ f32_lt(lo, v) /\ f32_lt(v, hi)

\* C15: Inside3 of a, b, c is (1,0) exactly when b.x < a.x < c.x and
\* b.y < a.y < c.y, all strict, and (0,1) in every other case: a component
\* of a equal to a bound, a NaN component.
C15_Inside3Strict ==
    LET result == stack[arguments(program) + 1]
        verdict(a, b, c) ==
            IF strictly_between(b.x, a.x, c.x) /\ strictly_between(b.y, a.y, c.y)
            THEN result = C(1, 0)
            ELSE result = C(0, 1)
    IN  computed("Inside3") =>
            verdict(operand_value(first_instruction, 1), operand_value(first_instruction, 2),
                    operand_value(first_instruction, 3))

\* an Inside3 was computed on a point inside the box, and the answer is (1,0)
C15_Witness ==
    /\ computed("Inside3")
    /\ stack[1] = C(1, 1) /\ stack[2] = C(0, 0) /\ stack[3] = C(2, 2)
    /\ stack[arguments(program) + 1] = C(1, 0)


\* C16: after compute, for every instruction i the slot arguments + i holds
\* the opcode's result on the values its operand slots hold after the call:
\* the instructions ran in index order in one pass, each reading what the
\* earlier ones stored.
C16_ForwardPass ==
    LET holds(i, ins) ==
            compute_op(ins, [k \in 1..3 |-> operand_value(ins, k)])
                = Ok(stack[arguments(program) + i + 1])
    IN  (call.op = "compute" /\ call.res = "Ok") =>
            \A i \in 0..(instructions(program) - 1) : holds(i, instruction(program, i).v)

\* the second instruction multiplied the quotient the first one stored
C16_Witness ==
    /\ computed("Divide2")
    /\ stack[1] = C(2, 2) /\ stack[2] = C(1, 1) /\ stack[3] = C(2, 2)
    /\ stack[4] = C(2, 2)
    /\ stack[5] = C(4, 4)

\* C17: compute on a validated program returns Ok whatever the argument
\* slots hold: a division by zero, a Clamp3 whose minimum is above its
\* maximum or is NaN, a NaN operand leave a value in the result slot.
C17_ComputeNeverFails ==
    call.op = "compute" => call.res = "Ok"


(***************************************************************************)
(* The blend loops of render (rendering.rs), followed for one pixel.       *)
(* The mask value q of the pixel comes from the external rasterizer.       *)
(***************************************************************************)
\* `float as u8`: toward zero, saturating, NaN to 0
f32_as_u8(f) ==
    IF IsNaN(f) THEN 0
    ELSE IF IsInf(f) THEN (IF f.n > 0 THEN 255 ELSE 0)
    ELSE IF f.n <= 0 THEN 0
    ELSE IF f.n \div f.d > 255 THEN 255
    ELSE f.n \div f.d

\* f32::is_sign_positive for the values whose sign the Float records keep:
\* every value but the zeros and NaN
is_sign_positive(f) ==
    CASE IsInf(f) -> f.n > 0
      [] f.k = "fin" /\ f.n # 0 -> f.n > 0

\* Triangle::weights
weights(tri, pt) ==
    LET signs(u, v, w) ==
            IF is_sign_positive(u) /\ is_sign_positive(v) /\ is_sign_positive(w)
            THEN Some(<<u, v, w>>) ELSE NoneV
        third(v, w) == signs(f32_sub(f32_sub(Fin(1), v), w), v, w)
        from(v2_x, v2_y) ==
            third(f32_sub(f32_mul(v2_x, tri.v[2].y), f32_mul(v2_y, tri.v[2].x)),
                  f32_sub(f32_mul(v2_y, tri.v[1].x), f32_mul(v2_x, tri.v[1].y)))
    IN  from(f32_sub(pt.x, tri.p[1].x), f32_sub(pt.y, tri.p[1].y))

\* Triangle::color_at(weights, color_map)
color_at(wts, color_map) ==
    [ k \in 1..4 |->
        f32_as_u8(f32_add(f32_add(f32_mul(color_map[1][k], wts[1]),
                                  f32_mul(color_map[2][k], wts[2])),
                          f32_mul(color_map[3][k], wts[3]))) ]

\* a blend whose destination weight is taken from the mask alone
blend_pixel_mask_weight(dst_pixel, src_pixel, mask_alpha, alpha_blend_dst) ==
    LET u8_max == 255
        mixed(src_alpha, dst_alpha) ==
            IF alpha_blend_dst
            THEN [k \in 1..4 |->
                    ((src_pixel[k] * src_alpha + dst_pixel[k] * dst_alpha) \div u8_max) % 256]
            ELSE [k \in 1..4 |-> ((src_pixel[k] * src_alpha) \div u8_max) % 256]
        scaled(src_alpha) == mixed(src_alpha, u8_max - mask_alpha)
    IN  IF src_pixel[4] = 255 /\ mask_alpha = 255 THEN src_pixel
        ELSE scaled((src_pixel[4] * mask_alpha) \div 255)

\* blend_pixel(dst_pixel, src_pixel, mask_alpha, alpha_blend_dst): the new
\* dst_pixel; u32 arithmetic, `as u8` on the way back
blend_pixel(dst_pixel, src_pixel, mask_alpha, alpha_blend_dst) ==
    LET u8_max == 255
        mixed(src_alpha, dst_alpha) ==
            IF alpha_blend_dst
            THEN [k \in 1..4 |->
                    ((src_pixel[k] * src_alpha + dst_pixel[k] * dst_alpha) \div u8_max) % 256]
            ELSE [k \in 1..4 |-> ((src_pixel[k] * src_alpha) \div u8_max) % 256]
        scaled(src_alpha) == mixed(src_alpha, u8_max - src_alpha)
    IN  IF src_pixel[4] = 255 /\ mask_alpha = 255 THEN src_pixel
        ELSE scaled((src_pixel[4] * mask_alpha) \div 255)

\* the color a triangle gives the pixel: colors[0] as u8 when solid, else
\* color_at
triangle_color(tc, wts) ==
    IF tc.solid THEN [k \in 1..4 |-> f32_as_u8(tc.colors[1][k])]
    ELSE color_at(wts, tc.colors)

\* `for t in offset..stop_before` of the Clip branch, for one pixel with
\* q # 0.  acc: [st, dst, blended], blended the triangles that reached
\* blend_pixel, in order
RECURSIVE clip_triangles(_, _, _, _, _, _, _, _, _)
clip_triangles(prog, t, stop_before, tris, tcolors, point, q, alpha_blend, acc) ==
    LET painted(ti, wts) ==
            IF wts = NoneV THEN acc
            ELSE [acc EXCEPT !.dst = blend_pixel(acc.dst, triangle_color(tcolors[ti + 1], wts[1]),
                                                 q, alpha_blend),
                             !.blended = Append(acc.blended, ti)]
        visit(ti) ==
            IF ~ti.ok THEN [acc EXCEPT !.st = ti.err]
            ELSE IF ~InRange(ti.v, Len(tris)) THEN [acc EXCEPT !.st = "abort"]
            ELSE clip_triangles(prog, t + 1, stop_before, tris, tcolors, point, q, alpha_blend,
                                painted(ti.v, weights(tris[ti.v + 1], point)))
    IN  IF t >= stop_before THEN acc ELSE visit(triangle_index(prog, t))

MaxVisits == 1

\* one pixel of one Clip step r: `if q != 0 { for t in offset..stop_before .. }`
clip_pixel(r, point, q, alpha_blend) ==
    /\ pixel.visits < MaxVisits
    /\ \E rs \in {raw_rendering_step(program, r)} :
         /\ rs.ok
         /\ rs.v.kind = "Clip"
         /\ \E bg \in {raw_background(program, rs.v.arg)} :
              /\ bg.ok
              /\ \E done \in {IF q = 0
                              THEN [st |-> "ok", dst |-> pixel.dst, blended |-> <<>>]
                              ELSE clip_triangles(program, bg.v.triangle_index_offset,
                                                  bg.v.stop_before, triangles_cache,
                                                  triangle_colors, point, q, alpha_blend,
                                                  [st |-> "ok", dst |-> pixel.dst,
                                                   blended |-> <<>>])} :
                   /\ pixel' = [dst |-> done.dst, visits |-> pixel.visits + 1]
                   /\ call' = [op |-> "clip_pixel",
                               name |-> <<r, point, q, alpha_blend, pixel.dst>>,
                               res |-> IF done.st = "ok" THEN "Ok" ELSE done.st,
                               out |-> Some(done.blended), kept |-> {}]
    /\ UNCHANGED <<frame, other, file, decoded, program, stack, stack_changes, flat_paths,
                   triangles_cache, triangle_colors, last_set>>

\* blend_pixel(&mut dst, src, q, alpha_blend) called on the pixel
blend_pixel_call(src, q, alpha_blend) ==
    /\ pixel.visits < MaxVisits
    /\ pixel' = [dst |-> blend_pixel(pixel.dst, src, q, alpha_blend),
                 visits |-> pixel.visits + 1]
    /\ call' = [op |-> "blend_pixel", name |-> <<src, q, alpha_blend, pixel.dst>>,
                res |-> "Ok", out |-> NoneV, kept |-> {}]
    /\ UNCHANGED <<frame, other, file, decoded, program, stack, stack_changes, flat_paths,
                   triangles_cache, triangle_colors, last_set>>

\* the program of the pixel model: a large triangle over the origin in
\* three colorings and a triangle away from it, in five backgrounds
RedTriangle == <<0, 1, 2, 3, 4, 3, 4, 3, 4>>
BlueTriangle == <<0, 1, 2, 5, 6, 5, 6, 5, 6>>
ShadedTriangle == <<0, 1, 2, 3, 4, 5, 6, 5, 4>>
FarTriangle == <<7, 8, 9, 5, 4, 5, 4, 5, 4>>

PixelBackgrounds ==
    << <<RedTriangle>>, <<RedTriangle, BlueTriangle>>, <<BlueTriangle, RedTriangle>>,
       <<FarTriangle, BlueTriangle>>, <<ShadedTriangle, RedTriangle>> >>

PixelProgram ==
    [ arguments |-> [k \in 1..10 |-> Arg(NoneV, C(0, 0))],
      instructions |-> << >>,
      outputs |-> << >>,
      rendering_steps |->
        [k \in 1..Len(PixelBackgrounds) |->
            [kind |-> "Clip", path |-> LinePath, background |-> PixelBackgrounds[k]]] ]

\* the argument slots as the caller set them: the vertices, then the
\* (r, g) and (b, a) couples of the colors
PixelStack ==
    << C(-1, -1), C(4, -1), C(-1, 4),
       C(1, 0), C(0, 1),
       C(0, 0), Couple(Fin(1), Rat(1, 2)),
       C(5, 5), C(9, 5), C(5, 9) >>

PixelPoints == {C(0, 0), C(1, 1), C(3, 3), C(6, 6)}
MaskValues == {0, 1, 128, 255}
CoverageValues == {0, 1, 127, 128, 254, 255}
DstPixels == {<<0, 0, 0, 0>>, <<10, 20, 30, 40>>, <<255, 255, 255, 255>>}
SrcPixels ==
    { <<255, 255, 255, 255>>, <<255, 0, 128, 128>>, <<200, 100, 50, 0>>,
      <<255, 255, 255, 128>>, <<1, 2, 3, 254>>, <<0, 0, 0, 255>> }

\* a session on PixelProgram whose render has rebuilt the caches
PixelInit ==
    \E r \in {NaiveRenderer_parse(serialize_program(PixelProgram).v)} :
        \E c \in {render_caches(r.v.program, PixelStack, r.v.stack_changes, r.v.flat_paths,
                                r.v.triangles, r.v.triangle_colors)} :
            /\ c.st = "ok"
            /\ program = r.v.program
            /\ stack = PixelStack
            /\ stack_changes = c.stack_changes
            /\ flat_paths = c.flat_paths
            /\ triangles_cache = c.triangles
            /\ triangle_colors = c.triangle_colors
            /\ call = NoCall
            /\ pixel \in {[dst |-> d, visits |-> 0] : d \in DstPixels}
            /\ frame = NoFrame
            /\ other = NoOther
            /\ last_set = [n \in Names |-> NoneV]
            /\ file = [format |-> "serialized", bytes |-> r.v.program.storage,
                       edit |-> NoEdit]
            /\ decoded = NoneV

PixelNext ==
    \/ \E r \in 0..(Len(PixelBackgrounds) - 1), point \in PixelPoints, q \in MaskValues,
          alpha_blend \in BOOLEAN : clip_pixel(r, point, q, alpha_blend)
    \/ \E src \in SrcPixels, q \in CoverageValues, alpha_blend \in BOOLEAN :
          blend_pixel_call(src, q, alpha_blend)

PixelSpec == PixelInit /\ [][PixelNext]_vars

\* the triangles of the background of Clip step r that contain the point,
\* in background order
containing(r, point) ==
    LET bg == raw_background(program, raw_rendering_step(program, r).v.arg).v
        listed == [k \in 1..(bg.stop_before - bg.triangle_index_offset) |->
                      triangle_index(program, bg.triangle_index_offset + k - 1).v]
        holds(ti) == weights(triangles_cache[ti + 1], point) # NoneV
    IN  SelectSeq(listed, holds)

\* C18: in a Clip step a pixel with non-zero coverage is blended at most
\* once, by the first triangle of the background that contains it; later
\* triangles that contain it contribute nothing.
C18_FirstTriangleOnly ==
    LET r == call.name[1]
        point == call.name[2]
        q == call.name[3]
        alpha_blend == call.name[4]
        before == call.name[5]
        first_only(inside) ==
            /\ Len(call.out[1]) <= 1
            /\ pixel.dst =
                 IF inside = <<>> THEN before
                 ELSE blend_pixel(before,
                                  triangle_color(triangle_colors[inside[1] + 1],
                                                 weights(triangles_cache[inside[1] + 1],
                                                         point)[1]),
                                  q, alpha_blend)
    IN  (call.op = "clip_pixel" /\ call.res = "Ok" /\ q # 0) =>
            first_only(containing(r, point))

\* C19: with alpha_blend false, blending src with coverage q sets every
\* channel of dst, alpha included, to src_channel * q / 255 whatever dst
\* held; with q = 255 dst becomes src for every source alpha.
C19_OpaqueWrite ==
    LET src == call.name[1]
        q == call.name[2]
    IN  (call.op = "blend_pixel" /\ call.name[3] = FALSE) =>
            /\ \A k \in 1..4 : pixel.dst[k] = (src[k] * q) \div 255
            /\ q = 255 => pixel.dst = src

\* C20: with alpha_blend true, blending src with coverage q takes
\* a = src.a * q / 255 and sets each of the four channels of dst to
\* (src * a + dst * (255 - a)) / 255 in integer arithmetic, a value in
\* 0..255; writing src verbatim when src.a = 255 and q = 255 is that value.
C20_AlphaBlend ==
    LET src == call.name[1]
        q == call.name[2]
        before == call.name[4]
        a == (src[4] * q) \div 255
    IN  (call.op = "blend_pixel" /\ call.name[3] = TRUE) =>
            \A k \in 1..4 :
                /\ pixel.dst[k] = (src[k] * a + before[k] * (255 - a)) \div 255
                /\ pixel.dst[k] \in 0..255
                /\ (src[4] = 255 /\ q = 255) => pixel.dst[k] = src[k]

\* a translucent source was blended over a pixel that held something
C20_Witness ==
    /\ call.op = "blend_pixel"
    /\ call.name = << <<255, 0, 128, 128>>, 254, TRUE, <<10, 20, 30, 40>> >>
    /\ pixel.dst = <<132, 10, 78, 83>>


(***************************************************************************)
(* render with its destination buffer (rendering.rs): the clear of the     *)
(* window, the caches, then the blend loops of every rendering step.  The  *)
(* mask of a step is what the external rasterizer wrote: one value per     *)
(* pixel of the window, row by row.                                        *)
(***************************************************************************)
ZeroPixel == <<0, 0, 0, 0>>

\* a clear of the first row only
RECURSIVE clear_rows_first_row(_, _, _, _, _)
clear_rows_first_row(dst, i, rows, w, stride) ==
    IF rows = 0 \/ i > 0 THEN [st |-> "ok", dst |-> dst]
    ELSE IF i > Len(dst) \/ w > Len(dst) - i THEN [st |-> "abort", dst |-> dst]
    ELSE clear_rows_first_row(
             [k \in 1..Len(dst) |-> IF k > i /\ k <= i + w THEN ZeroPixel ELSE dst[k]],
             i + stride, rows - 1, w, stride)

\* a clear that fills stride pixels of every row
RECURSIVE clear_rows_whole_stride(_, _, _, _, _)
clear_rows_whole_stride(dst, i, rows, w, stride) ==
    IF rows = 0 THEN [st |-> "ok", dst |-> dst]
    ELSE IF i > Len(dst) \/ stride > Len(dst) - i THEN [st |-> "abort", dst |-> dst]
    ELSE clear_rows_whole_stride(
             [k \in 1..Len(dst) |-> IF k > i /\ k <= i + stride THEN ZeroPixel ELSE dst[k]],
             i + stride, rows - 1, w, stride)

\* `for _ in 0..h { dst[i..][..w].fill(RGBA8::new(0, 0, 0, 0)); i += stride; }`
\* slicing past the end of dst panics
RECURSIVE clear_rows(_, _, _, _, _)
clear_rows(dst, i, rows, w, stride) ==
    IF rows = 0 THEN [st |-> "ok", dst |-> dst]
    ELSE IF i > Len(dst) \/ w > Len(dst) - i THEN [st |-> "abort", dst |-> dst]
    ELSE clear_rows([k \in 1..Len(dst) |-> IF k > i /\ k <= i + w THEN ZeroPixel ELSE dst[k]],
                    i + stride, rows - 1, w, stride)

\* the pixel loops of one rendering step, from pixel n of the window on:
\* `for y in 0..h { for x in 0..w { let q = mask.next(); if q != 0 { .. } } line += stride }`
\* step: [kind, offset, stop_before, color]
RECURSIVE blend_loops(_, _, _, _, _, _, _, _, _, _, _)
blend_loops(prog, step, tris, tcolors, dst, mask, n, w, h, stride, alpha_blend) ==
    LET at(x, y) == y * stride + x
        stored(x, y, px) ==
            blend_loops(prog, step, tris, tcolors, [dst EXCEPT ![at(x, y) + 1] = px],
                        mask, n + 1, w, h, stride, alpha_blend)
        clipped(x, y, done) ==
            IF done.st # "ok"
            THEN [st |-> done.st, dst |-> [dst EXCEPT ![at(x, y) + 1] = done.dst]]
            ELSE stored(x, y, done.dst)
        covered(x, y, q) ==
            IF ~InRange(at(x, y), Len(dst)) THEN [st |-> "abort", dst |-> dst]
            ELSE IF step.kind = "Clip"
            THEN clipped(x, y,
                         clip_triangles(prog, step.offset, step.stop_before, tris, tcolors,
                                        Couple(Fin(x), Fin(y)), q, alpha_blend,
                                        [st |-> "ok", dst |-> dst[at(x, y) + 1],
                                         blended |-> <<>>]))
            ELSE stored(x, y, blend_pixel(dst[at(x, y) + 1], step.color, q, alpha_blend))
        visit(x, y, q) ==
            IF q # 0 THEN covered(x, y, q)
            ELSE blend_loops(prog, step, tris, tcolors, dst, mask, n + 1, w, h, stride,
                             alpha_blend)
    IN  IF n >= w * h THEN [st |-> "ok", dst |-> dst]
        ELSE visit(n % w, n \div w, mask[n + 1])

\* `for r in 0..rendering_step_count` of render, from step r on
RECURSIVE draw_steps(_, _, _, _, _, _, _, _, _, _, _, _)
draw_steps(prog, r, stk, nflat, tris, tcolors, dst, masks, w, h, stride, alpha_blend) ==
    LET next(done) ==
            IF done.st # "ok" THEN done
            ELSE draw_steps(prog, r + 1, stk, nflat, tris, tcolors, done.dst, masks, w, h,
                            stride, alpha_blend)
        clip(bg) ==
            IF ~bg.ok THEN [st |-> bg.err, dst |-> dst]
            ELSE next(blend_loops(prog, [kind |-> "Clip", offset |-> bg.v.triangle_index_offset,
                                         stop_before |-> bg.v.stop_before, color |-> ZeroPixel],
                                  tris, tcolors, dst, masks[r + 1], 0, w, h, stride,
                                  alpha_blend))
        stroke(sk) ==
            IF ~sk.ok THEN [st |-> sk.err, dst |-> dst]
            ELSE IF \E a \in {sk.v.pattern, sk.v.width, sk.v.color[1], sk.v.color[2]} :
                       ~InRange(a, Len(stk))
            THEN [st |-> "abort", dst |-> dst]
            ELSE next(blend_loops(prog,
                                  [kind |-> "Stroke", offset |-> 0, stop_before |-> 0,
                                   color |-> [k \in 1..4 |->
                                       f32_as_u8(color(stk[sk.v.color[1] + 1],
                                                       stk[sk.v.color[2] + 1])[k])]],
                                  tris, tcolors, dst, masks[r + 1], 0, w, h, stride,
                                  alpha_blend))
        step(rs) ==
            IF ~rs.ok THEN [st |-> rs.err, dst |-> dst]
            ELSE IF ~InRange(rs.v.path, nflat) THEN [st |-> "abort", dst |-> dst]
            ELSE IF rs.v.kind = "Clip" THEN clip(raw_background(prog, rs.v.arg))
            ELSE stroke(stroker(prog, rs.v.arg))
    IN  IF r >= rendering_steps(prog) THEN [st |-> "ok", dst |-> dst]
        ELSE step(raw_rendering_step(prog, r))

MaxRenders == 1

\* NaiveRenderer::render(dst, mask, w, h, stride, alpha_blend); masks: the
\* mask the rasterizer produces for each rendering step
render_frame(w, h, stride, alpha_blend, masks) ==
    /\ Alive
    /\ \E cleared \in {clear_rows(frame.dst, 0, h, w, stride)} :
       \E r \in {IF cleared.st # "ok"
                 THEN [ st |-> cleared.st, stack_changes |-> stack_changes,
                        flat_paths |-> flat_paths, triangles |-> triangles_cache,
                        triangle_colors |-> triangle_colors ]
                 ELSE render_caches(program, stack, stack_changes, flat_paths,
                                    triangles_cache, triangle_colors)} :
       \E drawn \in {IF r.st # "ok" THEN [st |-> r.st, dst |-> cleared.dst]
                     ELSE draw_steps(program, 0, stack, Len(r.flat_paths), r.triangles,
                                     r.triangle_colors, cleared.dst, masks, w, h, stride,
                                     alpha_blend)} :
           /\ stack_changes' = r.stack_changes
           /\ flat_paths' = r.flat_paths
           /\ triangles_cache' = r.triangles
           /\ triangle_colors' = r.triangle_colors
           /\ frame' = [dst |-> drawn.dst, renders |-> frame.renders + 1]
           /\ call' = [op |-> "render",
                       name |-> <<w, h, stride, alpha_blend, masks, frame.dst>>,
                       res |-> IF drawn.st = "ok" THEN "Ok" ELSE drawn.st, out |-> NoneV,
                       kept |-> kept_paths(program, stack_changes)]
    /\ UNCHANGED <<pixel, other, file, decoded, program, stack, last_set>>

\* the programs of the buffer model: a Clip step and a Stroke step, or no
\* rendering step at all
FramePrograms ==
    { [ arguments |-> [k \in 1..10 |-> Arg(NoneV, C(0, 0))],
        instructions |-> << >>,
        outputs |-> << >>,
        rendering_steps |-> steps ] :
      steps \in { << >>,
                  << [kind |-> "Clip", path |-> LinePath,
                      background |-> <<RedTriangle, BlueTriangle>>],
                     [kind |-> "Stroke", path |-> LinePath, stroker |-> <<3, 3, 5, 6>>] >> } }

BufferLen == 6
FrameBuffers ==
    { [k \in 1..BufferLen |-> <<9, 9, 9, 9>>],
      [k \in 1..BufferLen |-> <<k, 2 * k, 3 * k, 255>>] }

\* window width, height and stride >= width that fit the buffer
Windows == { <<1, 1, 1>>, <<2, 1, 2>>, <<1, 2, 2>>, <<2, 2, 3>>, <<2, 2, 2>>, <<1, 2, 3>> }

\* masks of n pixels: nothing covered, everything, the first pixel, the last
MaskPatterns(n) ==
    { [k \in 1..n |-> 0], [k \in 1..n |-> 255],
      [k \in 1..n |-> IF k = 1 THEN 255 ELSE 0],
      [k \in 1..n |-> IF k = n THEN 128 ELSE 0] }

FrameInit ==
    \E sp \in FramePrograms :
        \E r \in {NaiveRenderer_parse(serialize_program(sp).v)} :
            /\ r.ok
            /\ program = r.v.program
            /\ stack = PixelStack
            /\ stack_changes = r.v.stack_changes
            /\ flat_paths = r.v.flat_paths
            /\ triangles_cache = r.v.triangles
            /\ triangle_colors = r.v.triangle_colors
            /\ call = NoCall
            /\ pixel = NoPixel
            /\ frame \in {[dst |-> b, renders |-> 0] : b \in FrameBuffers}
            /\ other = NoOther
            /\ last_set = [n \in Names |-> NoneV]
            /\ file = [format |-> "serialized", bytes |-> r.v.program.storage,
                       edit |-> NoEdit]
            /\ decoded = NoneV

FrameNext ==
    \/ \E win \in {x \in Windows : frame.renders < MaxRenders}, alpha_blend \in BOOLEAN :
         \E masks \in [1..rendering_steps(program) -> MaskPatterns(win[1] * win[2])] :
            render_frame(win[1], win[2], win[3], alpha_blend, masks)

FrameSpec == FrameInit /\ [][FrameNext]_vars

\* index k of dst (0-based) is a pixel of the w x h window
in_window(k, w, h, stride) ==
    \E row \in 0..(h - 1), col \in 0..(w - 1) : k = row * stride + col

\* C21: render sets every pixel of the width x height window (index
\* r * stride + c) to (0,0,0,0) before any rendering step draws, and writes
\* no pixel outside the window: a pixel outside keeps what it held, a window
\* pixel no step covers is (0,0,0,0), and with no rendering step the whole
\* window is (0,0,0,0).
C21_ClearsWindowOnly ==
    LET w == call.name[1]
        h == call.name[2]
        stride == call.name[3]
        masks == call.name[5]
        before == call.name[6]
        uncovered(k) ==
            \A row \in 0..(h - 1), col \in 0..(w - 1) :
                k = row * stride + col =>
                    \A r \in 1..Len(masks) : masks[r][row * w + col + 1] = 0
    IN  (call.op = "render" /\ frame.renders > 0) =>
            /\ \A k \in 0..(Len(before) - 1) :
                   ~in_window(k, w, h, stride) => frame.dst[k + 1] = before[k + 1]
            /\ call.res = "Ok" =>
                   \A k \in 0..(Len(before) - 1) :
                       (in_window(k, w, h, stride) /\ uncovered(k))
                           => frame.dst[k + 1] = ZeroPixel

\* a 2 x 2 window with stride 3 was rendered: the pixel between the rows
\* kept its value, a covered pixel was drawn and an uncovered one is clear
C21_Witness ==
    /\ call.op = "render" /\ call.res = "Ok"
    /\ frame.renders > 0
    /\ call.name[1] = 2 /\ call.name[2] = 2 /\ call.name[3] = 3
    /\ frame.dst[3] = <<9, 9, 9, 9>>
    /\ frame.dst[1] # ZeroPixel
    /\ frame.dst[2] = ZeroPixel


(***************************************************************************)
(* The change flags over the life of a session.                            *)
(***************************************************************************)
all_flags_set == \A k \in 1..Len(stack_changes) : stack_changes[k]
has_steps(p) == raw_path(program, p).v.stop_before > raw_path(program, p).v.step_offset

\* C22: right after construction the stack has arguments + instructions
\* slots, slot i holds the default value of argument i, and every change
\* flag is set; a render that starts with every flag set rebuilds the
\* polyline of every path that has steps and the position and colour cache
\* of every triangle.
C22_ConstructedDirty ==
    /\ [](call = NoCall =>
            /\ Len(stack) = arguments(program) + instructions(program)
            /\ Len(stack_changes) = Len(stack)
            /\ \A i \in 0..(arguments(program) - 1) :
                   stack[i + 1] = argument(program, i).v.value
            /\ all_flags_set)
    /\ [][ (all_flags_set /\ call'.op = "render" /\ call'.res = "Ok") =>
             /\ \A p \in 0..(paths(program) - 1) : has_steps(p) => p \notin call'.kept
             /\ \A p \in 0..(paths(program) - 1) : flat_paths'[p + 1] = fresh_flat_path(p)
             /\ \A t \in 0..(triangles(program) - 1) :
                   /\ triangles_cache'[t + 1] = fresh_triangle(t)
                   /\ triangle_colors'[t + 1] = fresh_triangle_colors(t) ]_vars

\* the first render of a session succeeded: no polyline was kept, every
\* path has its polyline and no triangle is the invalid one
C22_Witness ==
    /\ call.op = "render" /\ call.res = "Ok"
    /\ call.kept = {}
    /\ \A i \in 0..(arguments(program) - 1) : stack[i + 1] = argument(program, i).v.value
    /\ \A p \in 1..Len(flat_paths) : flat_paths[p] # <<>>
    /\ \A t \in 1..Len(triangles_cache) : triangles_cache[t] # Triangle_invalid

\* a successful render leaves every flag false, and a flag turns true only
\* in a set_argument step on an argument slot or a compute step on an
\* instruction slot whose content Differs from what the slot held
flags_clear_after_render ==
    (call.op = "render" /\ call.res = "Ok") =>
        \A k \in 1..Len(stack_changes) : ~stack_changes[k]

flag_raised_by_store(Differs(_, _)) ==
    \A k \in 1..Len(stack_changes) :
        (~stack_changes[k] /\ stack_changes'[k]) =>
            \/ /\ call'.op = "set_argument"
               /\ k <= arguments(program)
               /\ Differs(stack'[k], stack[k])
            \/ /\ call'.op = "compute"
               /\ k > arguments(program)
               /\ Differs(stack'[k], stack[k])

other_value(a, b) == a # b

\* C23 as stated: when render returns successfully every change flag is
\* false; a flag becomes true afterwards only through a set_argument that
\* writes a different value or a compute that changes an instruction slot.
C23_FlagsLife_OtherValue ==
    []flags_clear_after_render /\ [][flag_raised_by_store(other_value)]_vars

\* C23, amended: when render returns successfully every change flag is
\* false; a flag becomes true afterwards only through a set_argument or a
\* compute that stores a value which does not compare equal (f32 ==) to the
\* slot's content, as a value with a NaN component never does.
C23_FlagsLife ==
    []flags_clear_after_render /\ [][flag_raised_by_store(couple_ne)]_vars

\* after a successful render a setter raised one flag and left another clear
C23_Witness ==
    /\ call.op = "set_argument"
    /\ \E k \in 1..Len(stack_changes) : stack_changes[k]
    /\ \E k \in 1..Len(stack_changes) : ~stack_changes[k]


\* a compute step sets the flag of exactly the instruction slots whose new
\* content Differs from what the slot held, and changes no other flag
compute_flags(Differs(_, _)) ==
    call'.op = "compute" =>
        /\ Len(stack_changes') = Len(stack_changes)
        /\ \A k \in 1..Len(stack_changes) :
               stack_changes'[k] =
                   (stack_changes[k] \/ (k > arguments(program) /\ Differs(stack'[k], stack[k])))

\* C27 as stated: compute sets changes[slot] for exactly the instruction
\* slots whose newly computed value differs from the value the slot held
\* before the call; it never clears a flag and never modifies the flag of an
\* argument slot or of an instruction slot whose value did not change.
C27_ComputeFlags_OtherValue == [][compute_flags(other_value)]_vars

\* C27, amended: compute sets changes[slot] for exactly the instruction
\* slots whose newly computed value does not compare equal (f32 ==) to the
\* value the slot held before the call, which a result with a NaN component
\* never does; it never clears a flag and never modifies another flag.
C27_ComputeFlags == [][compute_flags(couple_ne)]_vars

\* after a render cleared the flags, a compute flagged one instruction slot
\* and left another one clear
C27_Witness ==
    /\ call.op = "compute" /\ call.res = "Ok"
    /\ \E k \in (arguments(program) + 1)..Len(stack_changes) : stack_changes[k]
    /\ \E k \in (arguments(program) + 1)..Len(stack_changes) : ~stack_changes[k]


(***************************************************************************)
(* A session whose path is an arc: the angular and radial deltas of the    *)
(* arc are the quotient of two arguments.                                  *)
(***************************************************************************)
ArcProgram ==
    [ arguments |-> [k \in 1..4 |-> Arg(NoneV, C(0, 0))],
      instructions |-> << Ins("Divide2", 2, 3, 0) >>,
      outputs |-> << >>,
      rendering_steps |->
        << [kind |-> "Stroke", path |-> << Step(0, <<0, 1, 4>>) >>,
            stroker |-> <<1, 1, 1, 1>>] >> ]

ArcValues ==
    { C(0, 0), C(1, 1), C(1, 0), C(0, 1), C(2, 1), C(1, 2),
      Couple(NaN, Fin(1)), Couple(Fin(1), NaN) }

ArcInit ==
    \E r \in {NaiveRenderer_parse(serialize_program(ArcProgram).v)} :
        /\ r.ok
        /\ program = r.v.program
        /\ \E start \in {C(1, 0), C(0, 0)}, num \in ArcValues, den \in ArcValues :
               stack = [r.v.stack EXCEPT ![1] = start, ![3] = num, ![4] = den]
        /\ stack_changes = r.v.stack_changes
        /\ flat_paths = r.v.flat_paths
        /\ triangles_cache = r.v.triangles
        /\ triangle_colors = r.v.triangle_colors
        /\ call = NoCall
        /\ pixel = NoPixel
        /\ frame = NoFrame
        /\ other = NoOther
        /\ last_set = [n \in Names |-> NoneV]
        /\ file = [format |-> "serialized", bytes |-> r.v.program.storage, edit |-> NoEdit]
        /\ decoded = NoneV

ArcNext ==
    \/ compute
    \/ render

ArcSpec == ArcInit /\ [][ArcNext]_vars

\* C24: every call of render returns, whatever the value stack holds: the
\* loop that splits the angular delta of an arc into sub-arcs of at most
\* pi/2 ends for every delta, the non-finite ones included.
C24_RenderTerminates ==
    call.op = "render" => call.res # "diverge"


(***************************************************************************)
(* Two render sessions over the same program bytes.  The session the       *)
(* caller is calling is in stack, stack_changes and the caches; the other  *)
(* one is parked in `other`.  Both draw into the caller's one buffer.      *)
(***************************************************************************)
TwoProgram ==
    [ arguments |-> << Arg(Some(NameOf(1)), C(1, 0)), Arg(NoneV, C(0, 1)) >>,
      instructions |-> << Ins("Swap1", 0, 0, 0) >>,
      outputs |-> << >>,
      rendering_steps |->
        << [kind |-> "Stroke", path |-> LinePath, stroker |-> <<1, 1, 2, 1>>] >> ]

MaxSharedRenders == 2
SharedWindows == { <<1, 2, 1>> }
SharedMasks(n) == { [k \in 1..n |-> IF k = 1 THEN 128 ELSE 0] }
SharedBuffer == [k \in 1..2 |-> <<9, 9, 9, 9>>]

\* the session a NaiveRenderer owns: its boxes
Session(id, stk, changes, fpaths, tris, tcolors, set) ==
    [ id |-> id, stack |-> stk, stack_changes |-> changes, flat_paths |-> fpaths,
      triangles |-> tris, triangle_colors |-> tcolors, last_set |-> set ]

\* the caller turns to the other session
switch ==
    /\ other # NoOther
    /\ other' = Session(3 - other.id, stack, stack_changes, flat_paths, triangles_cache,
                        triangle_colors, last_set)
    /\ stack' = other.stack
    /\ stack_changes' = other.stack_changes
    /\ flat_paths' = other.flat_paths
    /\ triangles_cache' = other.triangles
    /\ triangle_colors' = other.triangle_colors
    /\ last_set' = other.last_set
    /\ UNCHANGED <<pixel, frame, file, decoded, program, call>>

\* NaiveRenderer::parse(bytes) twice
TwoInit ==
    \E r \in {NaiveRenderer_parse(serialize_program(TwoProgram).v)} :
        /\ r.ok
        /\ program = r.v.program
        /\ stack = r.v.stack
        /\ stack_changes = r.v.stack_changes
        /\ flat_paths = r.v.flat_paths
        /\ triangles_cache = r.v.triangles
        /\ triangle_colors = r.v.triangle_colors
        /\ call = NoCall
        /\ pixel = NoPixel
        /\ frame = [dst |-> SharedBuffer, renders |-> 0]
        /\ other = Session(2, r.v.stack, r.v.stack_changes, r.v.flat_paths, r.v.triangles,
                           r.v.triangle_colors, [n \in Names |-> NoneV])
        /\ last_set = [n \in Names |-> NoneV]
        /\ file = [format |-> "serialized", bytes |-> r.v.program.storage, edit |-> NoEdit]
        /\ decoded = NoneV

TwoNext ==
    \/ switch
    \/ \E value \in ArgValues : set_argument(NameOf(1), value)
    \/ compute
    \/ \E win \in {x \in SharedWindows : frame.renders < MaxSharedRenders},
          alpha_blend \in BOOLEAN :
         \E masks \in [1..rendering_steps(program) -> SharedMasks(win[1] * win[2])] :
            render_frame(win[1], win[2], win[3], alpha_blend, masks)

TwoSpec == TwoInit /\ [][TwoNext]_vars

\* what a session with these caches draws alone for the render call `args`,
\* into a buffer of n pixels nobody drew into
drawn_alone(stk, fpaths, tris, tcolors, n, args) ==
    draw_steps(program, 0, stk, Len(fpaths), tris, tcolors, [k \in 1..n |-> ZeroPixel],
               args[5], args[1], args[2], args[3], args[4]).dst

\* C25: with two sessions over the same bytes, in every interleaving of
\* their set_argument, compute and render calls a call on one session
\* leaves the other session's stack, flags and caches as they were, and the
\* window a session renders is what that session draws alone, whatever the
\* other session drew into the buffer before.
C25_SessionsIsolated ==
    /\ [][ other # NoOther =>
             \/ other' = other
             \/ /\ other'.id # other.id
                /\ UNCHANGED <<call, frame>>
                /\ other' = Session(3 - other.id, stack, stack_changes, flat_paths,
                                    triangles_cache, triangle_colors, last_set)
                /\ other = Session(other.id, stack', stack_changes', flat_paths',
                                   triangles_cache', triangle_colors', last_set') ]_vars
    /\ [][ (other # NoOther /\ frame'.renders = frame.renders + 1 /\ call'.res = "Ok") =>
             \A k \in 0..(Len(frame.dst) - 1) :
                 in_window(k, call'.name[1], call'.name[2], call'.name[3])
                     => frame'.dst[k + 1] =
                            drawn_alone(stack', flat_paths', triangles_cache',
                                        triangle_colors', Len(frame.dst), call'.name)[k + 1]
          ]_vars

\* both sessions have rendered into the buffer, the second after a setter
\* gave it another stack than the first has
C25_Witness ==
    /\ other # NoOther
    /\ call.op = "render" /\ call.res = "Ok"
    /\ frame.renders = 2
    /\ \A k \in 1..Len(other.stack_changes) : ~other.stack_changes[k]
    /\ other.stack # stack
    /\ \E k \in 1..Len(frame.dst) : frame.dst[k] \notin {ZeroPixel, <<9, 9, 9, 9>>}


(***************************************************************************)
(* Record accessors and their index check.                                 *)
(***************************************************************************)
\* the record count of the section the last accessor call read from
accessed_count ==
    IF call.op = "instruction" THEN instructions(program) ELSE rendering_steps(program)

\* C26: a record accessor returns InvalidIndex for every index i >= the
\* record count of its section, the index equal to the count included
C26_AccessorRejectsCount ==
    (/\ call.op \in {"instruction", "raw_rendering_step"}
     /\ call.name[1] >= accessed_count)
        => call.res = "InvalidIndex"


(***************************************************************************)
(* A session over a file one of whose paths has no steps.                  *)
(***************************************************************************)
PathProgram ==
    [ arguments |-> << Arg(Some(NameOf(1)), C(1, 0)), Arg(Some(NameOf(2)), C(0, 1)) >>,
      instructions |-> << Ins("Add2", 0, 1, 0) >>,
      outputs |-> << >>,
      rendering_steps |->
        << [kind |-> "Stroke", path |-> << Step(3, <<0, 1>>) >>, stroker |-> <<1, 1, 1, 1>>],
           [kind |-> "Stroke", path |-> << Step(3, <<1, 2>>), Step(3, <<2, 1>>) >>,
            stroker |-> <<1, 1, 1, 1>>],
           [kind |-> "Stroke", path |-> << Step(3, <<2, 2>>) >>,
            stroker |-> <<1, 1, 1, 1>>] >> ]

\* the position of the paths section among those SerializedProgram::new discovers
PATHS_SECTION == CHOOSE s \in 1..Len(SECTIONS) : SECTIONS[s] = "paths"

\* the bytes b with the step count of path i set to zero
with_empty_path(b, i) ==
    with_word(b, section_at(b, PATHS_SECTION) + QUAD + i * 2 * QUAD + QUAD, 0)

\* a decoded Program with the same three paths, the third without steps
PathDecoded ==
    [ arguments |-> << Arg(Some(NameOf(1)), C(1, 0)), Arg(Some(NameOf(2)), C(0, 1)) >>,
      instructions |-> << Ins("Add2", 0, 1, 0) >>,
      outputs |-> << >>,
      triangles |-> << >>,
      arcs |-> << >>,
      cubic_curves |-> << >>,
      quadratic_curves |-> << >>,
      lines |-> << <<0, 1>>, <<1, 2>>, <<2, 1>> >>,
      strokers |-> << [pattern |-> 1, width |-> 1, color |-> <<1, 1>>] >>,
      paths |-> << << <<"Line", 0>> >>, << <<"Line", 1>>, <<"Line", 2>> >>, << >> >>,
      backgrounds |-> << >>,
      rendering_steps |-> << [kind |-> "Stroke", path |-> 0, arg |-> 0],
                             [kind |-> "Stroke", path |-> 1, arg |-> 0],
                             [kind |-> "Stroke", path |-> 2, arg |-> 0] >> ]

\* wizdraw.rs rdr, the points of one path: p.lines[index] and stack[a] panic
\* out of range. The points an Arc pushes are a function of the couples at
\* its center, radii and angular range, the first of them always pushed.
RECURSIVE rdr_steps(_, _, _, _, _)
rdr_steps(p, steps, k, stk, flat) ==
    LET s(a) == stk[a + 1]
        pushed(addrs, pts) ==
            IF \E j \in 1..Len(addrs) : ~InRange(addrs[j], Len(stk))
            THEN [st |-> "abort", flat |-> flat]
            ELSE rdr_steps(p, steps, k + 1, stk, flat \o [j \in 1..Len(addrs) |-> s(addrs[j])])
        indexed(section, index, is_arc) ==
            IF ~InRange(index, Len(section)) THEN [st |-> "abort", flat |-> flat]
            ELSE IF is_arc
            THEN pushed(<<section[index + 1].center, section[index + 1].radii,
                          section[index + 1].angular_range>>, <<>>)
            ELSE pushed(section[index + 1], <<>>)
    IN  IF k > Len(steps) THEN [st |-> "ok", flat |-> flat]
        ELSE CASE steps[k][1] = "Arc" -> indexed(p.arcs, steps[k][2], TRUE)
               [] steps[k][1] = "CubicCurve" -> indexed(p.cubic_curves, steps[k][2], FALSE)
               [] steps[k][1] = "QuadraticCurve" ->
                      indexed(p.quadratic_curves, steps[k][2], FALSE)
               [] OTHER -> indexed(p.lines, steps[k][2], FALSE)

\* wizdraw.rs rdr, `for path in &p.paths`: every path flattened and closed
RECURSIVE rdr_paths(_, _, _, _)
rdr_paths(p, k, stk, built) ==
    LET closed(f) ==
            IF f.st # "ok" THEN [st |-> f.st, paths |-> built]
            ELSE rdr_paths(p, k + 1, stk,
                           Append(built, IF f.flat # <<>> THEN Append(f.flat, f.flat[1])
                                         ELSE f.flat))
    IN  IF k > Len(p.paths) THEN [st |-> "ok", paths |-> built]
        ELSE closed(rdr_steps(p, p.paths[k], 1, stk, <<>>))

\* rdr(p, stack, ..) with the session's stack; the polylines it builds are
\* kept in call.out, the bytes of dst and mask are not followed here
rdr ==
    /\ Alive
    /\ decoded # NoneV
    /\ \E r \in {rdr_paths(decoded[1], 1, stack, <<>>)} :
           call' = [op |-> "rdr", name |-> <<>>, res |-> IF r.st = "ok" THEN "Ok" ELSE r.st,
                    out |-> Some(r.paths), kept |-> {}]
    /\ UNCHANGED <<pixel, frame, other, file, decoded, program, stack, stack_changes,
                   flat_paths, triangles_cache, triangle_colors, last_set>>

PathInit ==
    \E r \in {NaiveRenderer_parse(with_empty_path(serialize_program(PathProgram).v, 2))} :
        /\ r.ok
        /\ program = r.v.program
        /\ stack = r.v.stack
        /\ stack_changes = r.v.stack_changes
        /\ flat_paths = r.v.flat_paths
        /\ triangles_cache = r.v.triangles
        /\ triangle_colors = r.v.triangle_colors
        /\ call = NoCall
        /\ pixel = NoPixel
        /\ frame = NoFrame
        /\ other = NoOther
        /\ last_set = [n \in Names |-> NoneV]
        /\ file = [format |-> "serialized", bytes |-> r.v.program.storage,
                   edit |-> "none"]
        /\ decoded = Some(PathDecoded)

PathNext ==
    \/ \E value \in ArgValues : set_argument(NameOf(1), value)
    \/ compute
    \/ render
    \/ rdr

PathSpec == PathInit /\ [][PathNext]_vars

\* some address referenced by a step of path p has its change flag set
path_flagged(p) ==
    \E k \in 1..Len(path(program, p).v) :
        \E j \in 1..Len(path(program, p).v[k].v.points) :
            stack_changes[path(program, p).v[k].v.points[j] + 1]

no_steps(p) == path(program, p).v = <<>>

\* C28: render rebuilds the cached polyline of path p only if an address
\* referenced by a step of p has its change flag set when the render starts;
\* otherwise the polyline is left exactly as it was, and a path with no
\* steps is never rebuilt and stays empty
C28_RebuildOnlyIfFlagged ==
    /\ [](\A p \in 0..(paths(program) - 1) : no_steps(p) => flat_paths[p + 1] = <<>>)
    /\ [][ call'.op = "render" =>
              \A p \in 0..(paths(program) - 1) :
                  ~path_flagged(p) =>
                      /\ flat_paths'[p + 1] = flat_paths[p + 1]
                      /\ p \in call'.kept ]_vars

\* a successful render that rebuilt one polyline, kept another that is not
\* empty, and kept the polyline of the path with no steps
C28_Witness ==
    /\ call.op = "render" /\ call.res = "Ok"
    /\ \E p \in 0..(paths(program) - 1) : p \notin call.kept
    /\ \E p \in call.kept : flat_paths[p + 1] # <<>>
    /\ \E p \in call.kept : no_steps(p)


(***************************************************************************)
(* The shape of the polylines.                                             *)
(***************************************************************************)
\* empty, or more than one point and the last equal to the first
closed_or_empty(flat) ==
    flat = <<>> \/ (Len(flat) > 1 /\ flat[Len(flat)] = flat[1])

\* the 2n endpoints of n Line records, in step order, then the first again
line_polyline(records, stk) ==
    LET endpoints == [j \in 1..(2 * Len(records)) |->
                         stk[records[(j + 1) \div 2][2 - (j % 2)] + 1]]
    IN  IF records = <<>> THEN <<>> ELSE Append(endpoints, endpoints[1])

\* the Line records of the steps of path p of the serialized program
serialized_lines(p) == [k \in 1..Len(path(program, p).v) |-> path(program, p).v[k].v.points]

\* the Line records of the steps of path k of the decoded Program
decoded_lines(k) ==
    [j \in 1..Len(decoded[1].paths[k]) |-> decoded[1].lines[decoded[1].paths[k][j][2] + 1]]

\* C29: after every successful render every cached polyline is empty or
\* ends with its first point, the closing point being there exactly when the
\* steps produced a point; a path of n Line steps yields its 2n endpoints in
\* step order and then the closing point. The same holds for the polylines
\* rdr builds.
C29_PolylinesClosed ==
    /\ (call.op = "render" /\ call.res = "Ok") =>
           \A p \in 0..(paths(program) - 1) :
               /\ closed_or_empty(flat_paths[p + 1])
               /\ (\A k \in 1..Len(path(program, p).v) : path(program, p).v[k].v.type = 3)
                      => flat_paths[p + 1] = line_polyline(serialized_lines(p), stack)
    /\ (call.op = "rdr" /\ call.res = "Ok") =>
           \A k \in 1..Len(decoded[1].paths) :
               /\ closed_or_empty(call.out[1][k])
               /\ (\A j \in 1..Len(decoded[1].paths[k]) : decoded[1].paths[k][j][1] = "Line")
                      => call.out[1][k] = line_polyline(decoded_lines(k), stack)

\* a successful render left a polyline of five points for the path of two
\* Line steps, one of three points, and an empty one
C29_Witness ==
    /\ call.op = "render" /\ call.res = "Ok"
    /\ \E p \in 0..(paths(program) - 1) : Len(flat_paths[p + 1]) = 5
    /\ \E p \in 0..(paths(program) - 1) : Len(flat_paths[p + 1]) = 3
    /\ \E p \in 0..(paths(program) - 1) : flat_paths[p + 1] = <<>>
    /\ \E i \in 0..(arguments(program) - 1) : stack[i + 1] # argument(program, i).v.value


(***************************************************************************)
(* What the opened bytes give back of the lists serialize was given.       *)
(***************************************************************************)
\* the steps of path i of the opened program, as direct-form steps
read_back_path(i) ==
    [k \in 1..Len(path(program, i).v) |-> path(program, i).v[k].v]

\* the triangles of background i of the opened program, as direct-form
\* triangles
read_back_background(i) ==
    LET first == raw_background(program, i).v.triangle_index_offset
        stop == raw_background(program, i).v.stop_before
        tri(j) == triangle(program, triangle_index(program, first + j - 1).v).v
    IN  [j \in 1..(stop - first) |->
            tri(j).points \o tri(j).colors[1] \o tri(j).colors[2] \o tri(j).colors[3]]

read_back_stroker(i) ==
    << stroker(program, i).v.pattern, stroker(program, i).v.width,
       stroker(program, i).v.color[1], stroker(program, i).v.color[2] >>

read_back_step(k) ==
    LET made(raw) ==
            IF raw.kind = "Clip"
            THEN [kind |-> "Clip", path |-> read_back_path(raw.path),
                  background |-> read_back_background(raw.arg)]
            ELSE [kind |-> "Stroke", path |-> read_back_path(raw.path),
                  stroker |-> read_back_stroker(raw.arg)]
    IN  made(raw_rendering_step(program, k).v)

\* the opened program holds the lists of the direct form `given`
reads_back(given) ==
    /\ arguments(program) = Len(given.arguments)
    /\ \A i \in 0..(Len(given.arguments) - 1) :
           argument(program, i) = Ok(given.arguments[i + 1])
    /\ instructions(program) = Len(given.instructions)
    /\ \A i \in 0..(Len(given.instructions) - 1) :
           instruction(program, i) = Ok(given.instructions[i + 1])
    /\ outputs(program) = Len(given.outputs)
    /\ \A i \in 0..(Len(given.outputs) - 1) :
           sp_output(program, i) = Ok(given.outputs[i + 1])
    /\ rendering_steps(program) = Len(given.rendering_steps)
    /\ \A k \in 0..(Len(given.rendering_steps) - 1) :
           read_back_step(k) = given.rendering_steps[k + 1]

\* C30: for every list of arguments, instructions, outputs and rendering
\* steps, a path with no steps and a background with no triangles included,
\* serialize completes, SerializedProgram::new accepts the bytes, and what is
\* read back equals the input
C30_SerializeRoundTrip ==
    /\ call.op = "serialize" => call.res = "Ok"
    /\ call.op = "SerializedProgram::new" => (call.res = "Ok" /\ reads_back(decoded[1]))

====
